---- MODULE Spec2Model ----
(***************************************************************************)
(* pytzcvrt: terminal time zone span converter (src/pytzcvrt.py).          *)
(*                                                                         *)
(* The session state is the single dict `state` built in main(); it is     *)
(* modelled as one record variable with the dict's keys as fields, and     *)
(* every handler is an operator from a state record to the state record    *)
(* the handler leaves behind.  Texts are strings, positions are Python's   *)
(* 0-based offsets.                                                        *)
(***************************************************************************)
EXTENDS Integers, Sequences, FiniteSets, TLC

-----------------------------------------------------------------------------
(* Small helpers for Python's string and integer primitives.               *)

Min(a, b) == IF a <= b THEN a ELSE b
Max(a, b) == IF a >= b THEN a ELSE b

\* s[a:b] with Python's clamping of both ends (an empty range gives "")
PySlice(s, a, b) == SubSeq(s, Max(a, 0) + 1, Min(b, Len(s)))

\* s[i] for a 0-based i, "" when i is past the end
PyChar(s, i) == IF i < 0 \/ i >= Len(s) THEN "" ELSE SubSeq(s, i + 1, i + 1)

\* text[:pos] + ch + text[pos + 1:]
PyPut(text, pos, ch) == PySlice(text, 0, pos) \o ch \o PySlice(text, pos + 1, Len(text))

DIGITS == "0123456789"

Digits == {"0", "1", "2", "3", "4", "5", "6", "7", "8", "9"}

\* int(c) for a digit character c
DigitVal(c) == (CHOOSE i \in 1..10 : SubSeq(DIGITS, i, i) = c) - 1

\* str(n) for n >= 0
RECURSIVE IntToStr(_)
IntToStr(n) ==
    IF n < 10 THEN SubSeq(DIGITS, n + 1, n + 1)
    ELSE IntToStr(n \div 10) \o SubSeq(DIGITS, (n % 10) + 1, (n % 10) + 1)

\* f"{n:02d}" for n >= 0
Fmt02(n) == (IF n < 10 THEN "0" ELSE "") \o IntToStr(n)

\* str.strip() (the only whitespace these texts can hold is the blank)
RECURSIVE LStrip(_)
LStrip(s) == IF PyChar(s, 0) = " " THEN LStrip(PySlice(s, 1, Len(s))) ELSE s

RECURSIVE RStrip(_)
RStrip(s) == IF PyChar(s, Len(s) - 1) = " " THEN RStrip(PySlice(s, 0, Len(s) - 1)) ELSE s

Strip(s) == RStrip(LStrip(s))

\* 1-based place of character c in string t, 0 when absent
IndexIn(t, c) ==
    IF \E i \in 1..Len(t) : SubSeq(t, i, i) = c
    THEN CHOOSE i \in 1..Len(t) : SubSeq(t, i, i) = c
    ELSE 0

\* str.lower()
RECURSIVE Lower(_)
Lower(s) ==
    LET lowerAt(c, k) == IF k > 0 THEN SubSeq("abcdefghijklmnopqrstuvwxyz", k, k) ELSE c
        lowerChar(c) == lowerAt(c, IndexIn("ABCDEFGHIJKLMNOPQRSTUVWXYZ", c))
    IN  IF Len(s) = 0 THEN "" ELSE lowerChar(PyChar(s, 0)) \o Lower(PySlice(s, 1, Len(s)))

\* sub in s
Contains(s, sub) ==
    \E i \in 0..(Len(s) - Len(sub)) : PySlice(s, i, i + Len(sub)) = sub

\* a < b on str; the characters zone names, country names and filters are
\* made of are listed in code point order
RECURSIVE StrLess(_, _)
StrLess(a, b) ==
    LET code(c) ==
            IndexIn(" ()+-/0123456789:?ABCDEFGHIJKLMNOPQRSTUVWXYZ_abcdefghijklmnopqrstuvwxyz", c)
    IN  IF Len(b) = 0 THEN FALSE
        ELSE IF Len(a) = 0 THEN TRUE
        ELSE IF PyChar(a, 0) = PyChar(b, 0)
        THEN StrLess(PySlice(a, 1, Len(a)), PySlice(b, 1, Len(b)))
        ELSE code(PyChar(a, 0)) < code(PyChar(b, 0))

\* the elements of a finite set as a sequence (in some order)
RECURSIVE SetToSeq(_)
SetToSeq(S) ==
    IF S = {} THEN << >>
    ELSE LET x == CHOOSE x \in S : TRUE IN <<x>> \o SetToSeq(S \ {x})

-----------------------------------------------------------------------------
(* Module constants.                                                       *)

DEFAULT_SELECTED == <<"Asia/Baghdad", "Europe/Stockholm", "America/Los_Angeles", "UTC">>

INPUT_DISPLAY == "YYYY-MM-DD HH:MM"
INPUT_LEN == Len(INPUT_DISPLAY)
INPUT_TEMPLATE == "0000-00-00 00:00"
DIGIT_POSITIONS == <<0, 1, 2, 3, 5, 6, 8, 9, 11, 12, 14, 15>>
DIGIT_SET == {DIGIT_POSITIONS[i] : i \in 1..Len(DIGIT_POSITIONS)}
FIRST_DIGIT == DIGIT_POSITIONS[1]
LAST_DIGIT == DIGIT_POSITIONS[Len(DIGIT_POSITIONS)]
\* INPUT_TEMPLATE.index(" ") + 1 (IndexIn counts from 1)
TIME_FIRST_DIGIT == IndexIn(INPUT_TEMPLATE, " ")

-----------------------------------------------------------------------------
(* Digit-template cursor arithmetic.                                       *)

next_digit_pos(pos) ==
    IF \E i \in 1..Len(DIGIT_POSITIONS) : DIGIT_POSITIONS[i] >= pos
    THEN DIGIT_POSITIONS[CHOOSE i \in 1..Len(DIGIT_POSITIONS) :
             /\ DIGIT_POSITIONS[i] >= pos
             /\ \A j \in 1..(i - 1) : DIGIT_POSITIONS[j] < pos]
    ELSE LAST_DIGIT

\* a faulty variant of prev_digit_before that steps one character left
prev_char_before(pos) == Max(pos - 1, 0)

prev_digit_before(pos) ==
    IF \E i \in 1..Len(DIGIT_POSITIONS) : DIGIT_POSITIONS[i] < pos
    THEN DIGIT_POSITIONS[CHOOSE i \in 1..Len(DIGIT_POSITIONS) :
             /\ DIGIT_POSITIONS[i] < pos
             /\ \A j \in (i + 1)..Len(DIGIT_POSITIONS) : DIGIT_POSITIONS[j] >= pos]
    ELSE pos

next_digit_after(pos) ==
    IF \E i \in 1..Len(DIGIT_POSITIONS) : DIGIT_POSITIONS[i] > pos
    THEN DIGIT_POSITIONS[CHOOSE i \in 1..Len(DIGIT_POSITIONS) :
             /\ DIGIT_POSITIONS[i] > pos
             /\ \A j \in 1..(i - 1) : DIGIT_POSITIONS[j] <= pos]
    ELSE pos

cursor_from_click(rel) ==
    IF rel <= FIRST_DIGIT THEN FIRST_DIGIT
    ELSE IF rel >= LAST_DIGIT THEN LAST_DIGIT
    ELSE IF rel \in DIGIT_SET THEN rel
    ELSE next_digit_after(rel)

-----------------------------------------------------------------------------
(* The proleptic Gregorian calendar of datetime: a naive datetime is a     *)
(* day ordinal (0001-01-01 is day 1) and a minute of the day.  Years run   *)
(* from 1 to 9999, so the last day is ordinal 3652059.                     *)

IsLeap(y) == (y % 4 = 0) /\ ((y % 100 # 0) \/ (y % 400 = 0))

DaysInMonth(y, m) ==
    IF m = 2 /\ IsLeap(y) THEN 29
    ELSE <<31, 28, 31, 30, 31, 30, 31, 31, 30, 31, 30, 31>>[m]

DaysBeforeMonth(y, m) ==
    <<0, 31, 59, 90, 120, 151, 181, 212, 243, 273, 304, 334>>[m]
      + (IF m > 2 /\ IsLeap(y) THEN 1 ELSE 0)

\* datetime(y, m, d, hh, mm)
Dt(y, m, d, hh, mm) ==
    [ord  |-> (y - 1) * 365 + ((y - 1) \div 4) - ((y - 1) \div 100) + ((y - 1) \div 400)
                + DaysBeforeMonth(y, m) + d,
     mins |-> hh * 60 + mm]

\* datetime's _ord2ymd, one divmod per step (400, 100, 4 years and 1 year);
\* n is the day left over within the cycle, year the first year of the cycle
Ord2Ymd(ord) ==
    LET monthDay(y, doy, m) == [y |-> y, m |-> m, d |-> doy - DaysBeforeMonth(y, m)]
        yearDay(y, doy) ==
            monthDay(y, doy, CHOOSE m \in 1..12 :
                                 /\ DaysBeforeMonth(y, m) < doy
                                 /\ doy <= DaysBeforeMonth(y, m) + DaysInMonth(y, m))
        by1(year, n100, n1, n) ==
            IF n1 = 4 \/ n100 = 4 THEN [y |-> year - 1, m |-> 12, d |-> 31]
            ELSE yearDay(year, n + 1)
        by4(year, n100, n) == by1(year + (n \div 365), n100, n \div 365, n % 365)
        by100(year, n100, n) == by4(year + (n \div 1461) * 4, n100, n % 1461)
        by400(year, n) == by100(year + (n \div 36524) * 100, n \div 36524, n % 36524)
    IN  by400(((ord - 1) \div 146097) * 400 + 1, (ord - 1) % 146097)

\* datetime + timedelta(minutes=k), before the range check
DtShift(dt, k) ==
    [ord |-> dt.ord + ((dt.mins + k) \div 1440), mins |-> (dt.mins + k) % 1440]

DtLess(a, b) == a.ord < b.ord \/ (a.ord = b.ord /\ a.mins < b.mins)

\* (a - b) in whole minutes
DtDiffMinutes(a, b) == (a.ord - b.ord) * 1440 + (a.mins - b.mins)

-----------------------------------------------------------------------------
(* The zone database (zoneinfo).  A zone is a base UTC offset in minutes   *)
(* and a list of transitions, each a UTC instant and the offset in force   *)
(* from it on.  The sample database holds the zones below with their 2024  *)
(* rules.                                                                  *)

ZoneBase(z) ==
    CASE z = "UTC" -> 0
      [] z = "Asia/Baghdad" -> 180
      [] z = "Europe/Stockholm" -> 60
      [] z = "America/Los_Angeles" -> -480
      [] OTHER -> 0

ZoneTransitions(z) ==
    CASE z = "America/Los_Angeles" ->
             << [at |-> Dt(2024, 3, 10, 10, 0), off |-> -420],
                [at |-> Dt(2024, 11, 3, 9, 0), off |-> -480] >>
      [] z = "Europe/Stockholm" ->
             << [at |-> Dt(2024, 3, 31, 1, 0), off |-> 120],
                [at |-> Dt(2024, 10, 27, 1, 0), off |-> 60] >>
      [] OTHER -> << >>

\* the offset the last of the transitions hit brought, base when none did
LastOff(base, tr, hit) ==
    IF hit = {} THEN base ELSE tr[CHOOSE i \in hit : \A j \in hit : j <= i].off

\* ZoneInfo.fromutc: the offset at a UTC instant
UtcOffsetAtUtc(z, utc) ==
    LET at(base, tr) == LastOff(base, tr, {i \in 1..Len(tr) : ~DtLess(utc, tr[i].at)})
    IN  at(ZoneBase(z), ZoneTransitions(z))

\* ZoneInfo.utcoffset of a wall-clock value with fold = 0: a transition
\* counts from the later of its two wall-clock readings, so a time in a gap
\* or an overlap takes the offset in force before the transition
UtcOffsetAtWall(z, wall) ==
    LET before(base, tr, i) == IF i = 1 THEN base ELSE tr[i - 1].off
        at(base, tr) ==
            LastOff(base, tr,
                    {i \in 1..Len(tr) :
                        ~DtLess(wall, DtShift(tr[i].at, Max(before(base, tr, i), tr[i].off)))})
    IN  at(ZoneBase(z), ZoneTransitions(z))

\* naive.replace(tzinfo=ZoneInfo(z)): the wall-clock digits are kept
Attach(naive, z) == [ord |-> naive.ord, mins |-> naive.mins, tz |-> z]

Naive(dt) == [ord |-> dt.ord, mins |-> dt.mins]

\* the UTC reading of an aware datetime (not range-checked)
ToUtc(dt) == DtShift(Naive(dt), 0 - UtcOffsetAtWall(dt.tz, Naive(dt)))

\* a < b on aware datetimes: operands sharing one tzinfo object are compared
\* on their wall-clock fields, others on their UTC readings
AwareLess(a, b) ==
    IF a.tz = b.tz THEN DtLess(Naive(a), Naive(b)) ELSE DtLess(ToUtc(a), ToUtc(b))

\* (a - b) in whole minutes on aware datetimes, with the same rule
AwareDiffMinutes(a, b) ==
    IF a.tz = b.tz THEN DtDiffMinutes(Naive(a), Naive(b))
    ELSE DtDiffMinutes(ToUtc(a), ToUtc(b))

\* dt.astimezone(ZoneInfo(z)): the same object when the zone is dt's own;
\* otherwise the local reading loc of dt's UTC instant utc in zone z, or
\* "raise" (OverflowError) when either leaves the representable range
AsTimezone(dt, z) ==
    LET inRange(d) == d.ord >= 1 /\ d.ord <= 3652059
        localized(utc, loc) ==
            IF ~inRange(utc) \/ ~inRange(loc) THEN [raise |-> TRUE, dt |-> dt]
            ELSE [raise |-> FALSE, dt |-> Attach(loc, z)]
        fromUtc(utc) == localized(utc, DtShift(utc, UtcOffsetAtUtc(z, utc)))
    IN  IF dt.tz = z THEN [raise |-> FALSE, dt |-> dt] ELSE fromUtc(ToUtc(dt))

\* datetime.now(ZoneInfo(z)) for the UTC instant the clock shows
NowIn(z, utc) == Attach(DtShift(utc, UtcOffsetAtUtc(z, utc)), z)

-----------------------------------------------------------------------------
(* Formatting and parsing.                                                 *)

\* dt.strftime("%Y-%m-%d %H:%M"); the C library pads %Y to four digits on
\* some platforms and not on others (ypad)
Strftime(dt, ypad) ==
    LET fmt04(n) ==
            (IF n < 10 THEN "000" ELSE IF n < 100 THEN "00" ELSE IF n < 1000 THEN "0" ELSE "")
              \o IntToStr(n)
        text(c) ==
            (IF ypad THEN fmt04(c.y) ELSE IntToStr(c.y)) \o "-" \o Fmt02(c.m) \o "-"
              \o Fmt02(c.d) \o " " \o Fmt02(dt.mins \div 60) \o ":" \o Fmt02(dt.mins % 60)
    IN  text(Ord2Ymd(dt.ord))

IsDigit(s, i) == PyChar(s, i) \in Digits

\* the number written by the digit at 0-based i, and by the two digits there
Num1(s, i) == DigitVal(PyChar(s, i))
Num2(s, i) == Num1(s, i) * 10 + Num1(s, i + 1)

\* the ways strptime's pattern for one directive matches s at 0-based i: a
\* set of <<value, next position>>.  A directive's two-digit alternatives
\* together accept the two-digit numbers from lo to hi
OneDigit(s, i, lo) ==
    IF IsDigit(s, i) /\ Num1(s, i) >= lo THEN {<<Num1(s, i), i + 1>>} ELSE {}

TwoDigit(s, i, lo, hi) ==
    IF IsDigit(s, i) /\ IsDigit(s, i + 1) /\ Num2(s, i) >= lo /\ Num2(s, i) <= hi
    THEN {<<Num2(s, i), i + 2>>} ELSE {}

\* \s+ from i: the position after the run of blanks (i itself without a blank)
RECURSIVE SkipBlanks(_, _)
SkipBlanks(s, i) == IF PyChar(s, i) = " " THEN SkipBlanks(s, i + 1) ELSE i

\* the matches of (\d\d\d\d)-(%m)-(%d)\s+(%H):(%M) that use up all of s,
\* directive by directive:
\*   %m is 1[0-2]|0[1-9]|[1-9]
\*   %d is 3[01]|[12]\d|0[1-9]|[1-9]| [1-9]
\*   %H is 2[0-3]|[0-1]\d|\d
\*   %M is [0-5]\d|\d (nothing follows it in the pattern, so there is no
\*      backtracking into the second alternative)
PatternMatches(s) ==
    LET monthOpts(i) == TwoDigit(s, i, 1, 12) \cup OneDigit(s, i, 1)
        dayOpts(i) ==
            TwoDigit(s, i, 1, 31) \cup OneDigit(s, i, 1)
              \cup (IF PyChar(s, i) = " " THEN OneDigit(s, i + 1, 1) ELSE {})
        hourOpts(i) == TwoDigit(s, i, 0, 23) \cup OneDigit(s, i, 0)
        firstOf(a, b) == IF a # {} THEN a ELSE b
        minuteOpts(i) == firstOf(TwoDigit(s, i, 0, 59), OneDigit(s, i, 0))
        matchMinute(y, m, d, hh, i) ==
            {[y |-> y, m |-> m, d |-> d, hh |-> hh, mm |-> mi[1]] :
                mi \in {o \in minuteOpts(i) : o[2] = Len(s)}}
        matchHour(y, m, d, i) ==
            UNION {matchMinute(y, m, d, ho[1], ho[2] + 1) :
                      ho \in {o \in hourOpts(i) : PyChar(s, o[2]) = ":"}}
        matchDay(y, m, i) ==
            UNION {matchHour(y, m, da[1], SkipBlanks(s, da[2])) :
                      da \in {o \in dayOpts(i) : PyChar(s, o[2]) = " "}}
        matchMonth(y) ==
            UNION {matchDay(y, mo[1], mo[2] + 1) :
                      mo \in {o \in monthOpts(5) : PyChar(s, o[2]) = "-"}}
    IN  IF (\A i \in 0..3 : IsDigit(s, i)) /\ PyChar(s, 4) = "-"
        THEN matchMonth(Num2(s, 0) * 100 + Num2(s, 2))
        ELSE {}

\* datetime.strptime(text.strip(), "%Y-%m-%d %H:%M"): ok is FALSE where
\* Python raises ValueError (no match, text left over, year 0, or a day the
\* month does not have)
parse_dt(text) ==
    LET fields(f) ==
            IF f.y < 1 \/ f.d > DaysInMonth(f.y, f.m) THEN [ok |-> FALSE]
            ELSE [ok |-> TRUE, dt |-> Dt(f.y, f.m, f.d, f.hh, f.mm)]
        matches(ms) == IF ms = {} THEN [ok |-> FALSE] ELSE fields(CHOOSE f \in ms : TRUE)
    IN  matches(PatternMatches(Strip(text)))

-----------------------------------------------------------------------------
(* Conversion.                                                             *)

ERR_NO_ZONES == "No selected zones. Use settings to add at least one."
ERR_BAD_START == "Bad datetime format for Start. Use YYYY-MM-DD HH:MM."
ERR_BAD_END == "Bad datetime format for End. Use YYYY-MM-DD HH:MM."
ERR_END_EARLIER == "End earlier than start."

\* the from zone: state["selected"][state["from_idx"]]
FromZone(st) == st.selected[st.from_idx + 1]

\* the conversions cs (of start) and ce (of end) into each selected zone
\* are the rows of the table.  Field exc models an exception leaving the
\* function: astimezone raising OverflowError is not caught anywhere up to
\* run(), which ends the session
ComputeRows(st, cs, ce) ==
    IF \E i \in 1..Len(st.selected) : cs[i].raise \/ ce[i].raise
    THEN [st EXCEPT !.exc = "OverflowError"]
    ELSE [st EXCEPT !.results =
             [i \in 1..Len(st.selected) |-> <<st.selected[i], cs[i].dt, ce[i].dt>>]]

\* duration_str and total_minutes from the span's length in minutes
WithDuration(st, total) ==
    [st EXCEPT !.duration_str = Fmt02(total \div 60) \o ":" \o Fmt02(total % 60),
               !.total_minutes = total]

\* compute_results once both texts are attached to the from zone
ComputeSpan(st, start, end) ==
    IF AwareLess(end, start) THEN [st EXCEPT !.error = ERR_END_EARLIER]
    ELSE ComputeRows(WithDuration(st, AwareDiffMinutes(end, start)),
                     [i \in 1..Len(st.selected) |-> AsTimezone(start, st.selected[i])],
                     [i \in 1..Len(st.selected) |-> AsTimezone(end, st.selected[i])])

\* a faulty variant of ComputeParsed that looks at End before Start
ComputeParsedEndFirst(st, ps, pe) ==
    IF ~pe.ok THEN [st EXCEPT !.error = ERR_BAD_END]
    ELSE IF ~ps.ok THEN [st EXCEPT !.error = ERR_BAD_START]
    ELSE ComputeSpan(st, Attach(ps.dt, FromZone(st)), Attach(pe.dt, FromZone(st)))

\* compute_results once both texts went through parse_dt
ComputeParsed(st, ps, pe) ==
    IF ~ps.ok THEN [st EXCEPT !.error = ERR_BAD_START]
    ELSE IF ~pe.ok THEN [st EXCEPT !.error = ERR_BAD_END]
    ELSE ComputeSpan(st, Attach(ps.dt, FromZone(st)), Attach(pe.dt, FromZone(st)))

\* a faulty variant of ClearResults that leaves the old rows in place
ClearResultsKeepRows(st) ==
    [st EXCEPT !.error = "", !.duration_str = "", !.total_minutes = 0]

\* the reset at the top of compute_results
ClearResults(st) ==
    [st EXCEPT !.error = "", !.results = << >>, !.duration_str = "", !.total_minutes = 0]

compute_results(st) ==
    IF Len(st.selected) = 0 THEN [ClearResults(st) EXCEPT !.error = ERR_NO_ZONES]
    ELSE ComputeParsed(ClearResults(st), parse_dt(st.start_text), parse_dt(st.end_text))

-----------------------------------------------------------------------------
(* Configuration file and display settings.                                *)

THEME_NAMES == <<"default", "high_contrast", "hacker_green_black">>
THEMES == {THEME_NAMES[i] : i \in 1..Len(THEME_NAMES)}

SeqToSet(q) == {q[i] : i \in 1..Len(q)}

RECURSIVE FilterKnown(_, _)
FilterKnown(items, known) ==
    IF Len(items) = 0 THEN << >>
    ELSE IF Head(items) \in known
         THEN <<Head(items)>> \o FilterKnown(Tail(items), known)
         ELSE FilterKnown(Tail(items), known)

\* a faulty variant of load_selected without the fallbacks
load_selected_file_only(fromFile, defaults, all_zones) == fromFile

\* the list load_config returns: the file's known zones (fromFile), else
\* the known defaults, else UTC when the database has it
load_selected(fromFile, defaults, all_zones) ==
    IF Len(fromFile) > 0 THEN fromFile
    ELSE IF Len(defaults) > 0 THEN defaults
    ELSE IF "UTC" \in all_zones THEN <<"UTC">>
    ELSE << >>

\* load_config(all_zones) reading the file cfg: a record with field present
\* (FALSE for a missing or corrupt file) and the four keys of the JSON
\* object; colors_enabled is "true", "false", or "unset" when the key is
\* absent or not a bool
load_config(all_zones, cfg) ==
    [selected |-> load_selected(IF cfg.present THEN FilterKnown(cfg.selected, all_zones)
                                ELSE << >>,
                                FilterKnown(DEFAULT_SELECTED, all_zones), all_zones),
     box_mode |-> IF cfg.present /\ Lower(cfg.box_drawing) \in {"ascii", "unicode"}
                  THEN Lower(cfg.box_drawing) ELSE "ascii",
     colors_enabled |-> IF cfg.present THEN cfg.colors_enabled ELSE "unset",
     theme_name |-> IF cfg.present /\ cfg.theme \in THEMES THEN cfg.theme ELSE "default"]

\* save_config(...): the file written (field disk_config is the file); a
\* file that cannot be opened for writing is left as it was and the
\* exception is swallowed
save_config(st, selected, box_mode, colors_enabled, theme_name) ==
    IF ~st.env_writable THEN st
    ELSE
    [st EXCEPT !.disk_config = [present |-> TRUE, selected |-> selected,
                                box_drawing |-> box_mode,
                                colors_enabled |-> IF colors_enabled THEN "true" ELSE "false",
                                theme |-> theme_name]]

apply_color_settings(st, enabled, theme_name) ==
    LET s1 == [st EXCEPT !.theme_name = IF theme_name \in THEMES THEN theme_name ELSE "default"]
    IN  IF ~s1.colors_supported
        THEN [s1 EXCEPT !.colors_enabled = FALSE, !.colors_warning = "Colors unsupported"]
        ELSE [s1 EXCEPT !.colors_enabled = enabled, !.colors_warning = ""]

\* a faulty variant of apply_box_mode without the runtime fallback
apply_box_mode_unchecked(st, desired) ==
    [st EXCEPT !.box_mode = desired, !.box_warning = ""]

apply_box_mode(st, desired) ==
    IF desired = "unicode" /\ ~st.unicode_supported
    THEN [st EXCEPT !.box_mode = "ascii",
                    !.box_warning = "Unicode box drawing not supported; using ASCII."]
    ELSE [st EXCEPT !.box_mode = desired, !.box_warning = ""]

\* set_mouse_enabled(state, enabled); env_mouse is whether curses.mousemask
\* reports any mouse event as available
set_mouse_enabled(st, enabled) ==
    IF enabled THEN [st EXCEPT !.mouse_enabled = st.env_mouse]
    ELSE [st EXCEPT !.mouse_enabled = FALSE]

-----------------------------------------------------------------------------
(* Input handling on the main screen.                                      *)

\* reset_inputs(state) at the clock reading now (a UTC instant)
reset_inputs(st, now) ==
    IF Len(st.selected) = 0 THEN st
    ELSE LET start == NowIn(FromZone(st), now)
             end   == DtShift(Naive(start), 60)
         IN  [st EXCEPT !.start_text = Strftime(start, st.env_ypad),
                        !.end_text = Strftime(end, st.env_ypad),
                        !.cursor_start = TIME_FIRST_DIGIT,
                        !.cursor_end = TIME_FIRST_DIGIT]

open_settings(st) ==
    [st EXCEPT !.settings_open = TRUE,
               !.settings_selected = st.selected,
               !.settings_original = st.selected,
               !.settings_box_mode = st.box_mode,
               !.settings_colors_enabled = st.colors_enabled,
               !.settings_theme = st.theme_name,
               !.settings_original_box_mode = st.box_mode,
               !.settings_original_colors = st.colors_enabled,
               !.settings_original_theme = st.theme_name,
               !.settings_focus = 1,
               !.help_open = FALSE,
               !.all_scroll_manual = FALSE,
               !.sel_scroll_manual = FALSE,
               !.filter_text = "",
               !.filter_cursor = 0,
               !.all_idx = 0,
               !.all_scroll = 0,
               !.sel_idx = 0,
               !.sel_scroll = 0,
               !.settings_msg = ""]

\* key codes are named: a printable key is its character, the others are
\* "TAB", "BTAB", "ENTER" (10, 13), "KEY_ENTER", "ESC" (27), "BACKSPACE"
\* (KEY_BACKSPACE, 127, 8), "DC", "UP", "DOWN", "LEFT", "RIGHT", "HOME",
\* "END", "NPAGE", "PPAGE", "RESIZE", "MOUSE" and "NONE" (-1, the poll
\* timed out)
IsPrintable(key) == Len(key) = 1

\* key in (curses.KEY_ENTER, 10, 13)
ENTER_KEYS == {"KEY_ENTER", "ENTER"}

\* the Start/End branch of handle_main_input (focus_main in (1, 2))
main_field_input(key, st) ==
    LET onStart == st.focus_main = 1
        text    == IF onStart THEN st.start_text ELSE st.end_text
        cursor  == IF onStart THEN st.cursor_start ELSE st.cursor_end
        put(s, t, c) == IF onStart THEN [s EXCEPT !.start_text = t, !.cursor_start = c]
                                   ELSE [s EXCEPT !.end_text = t, !.cursor_end = c]
        setCursor(s, c) == IF onStart THEN [s EXCEPT !.cursor_start = c]
                                      ELSE [s EXCEPT !.cursor_end = c]
    IN  IF key \in ENTER_KEYS THEN
            [changed |-> TRUE,
             st |-> IF onStart
                    THEN [st EXCEPT !.focus_main = 2, !.cursor_end = TIME_FIRST_DIGIT]
                    ELSE [st EXCEPT !.focus_main = 0, !.from_list_open = FALSE]]
        ELSE IF key = "LEFT" THEN
            [changed |-> TRUE, st |-> setCursor(st, prev_digit_before(cursor))]
        ELSE IF key = "RIGHT" THEN
            [changed |-> TRUE, st |-> setCursor(st, next_digit_after(cursor))]
        ELSE IF key = "HOME" THEN
            [changed |-> TRUE, st |-> setCursor(st, FIRST_DIGIT)]
        ELSE IF key = "END" THEN
            [changed |-> TRUE, st |-> setCursor(st, LAST_DIGIT)]
        ELSE IF key = "BACKSPACE" THEN
            LET pos == prev_digit_before(cursor)
            IN  [changed |-> TRUE,
                 st |-> compute_results(put(st, PyPut(text, pos, "0"), pos))]
        ELSE IF key = "DC" THEN
            LET pos == IF cursor \in DIGIT_SET THEN cursor ELSE next_digit_pos(cursor)
            IN  [changed |-> TRUE,
                 st |-> compute_results(put(st, PyPut(text, pos, "0"), pos))]
        ELSE IF key \in Digits THEN
            LET pos == IF cursor \in DIGIT_SET THEN cursor ELSE next_digit_pos(cursor)
                s1  == put(st, PyPut(text, pos, key), cursor)
                s2  == IF onStart /\ pos = LAST_DIGIT
                       THEN [s1 EXCEPT !.focus_main = 2, !.cursor_end = TIME_FIRST_DIGIT]
                       ELSE IF ~onStart /\ pos = LAST_DIGIT
                       THEN [s1 EXCEPT !.focus_main = 0, !.from_list_open = FALSE]
                       ELSE setCursor(s1, next_digit_after(pos))
            IN  [changed |-> TRUE, st |-> compute_results(s2)]
        ELSE [changed |-> FALSE, st |-> st]

\* a faulty variant of from_step that does not recompute
from_step_stale(st, step) ==
    [st EXCEPT !.from_idx = (st.from_idx + step) % Len(st.selected)]

\* Up / Down on the closed From TZ list: the from zone moves by step, wrapping
from_step(st, step) ==
    compute_results([st EXCEPT !.from_idx = (st.from_idx + step) % Len(st.selected)])

\* a faulty variant of main_from_input whose Up and Down wrap around in
\* the open dropdown
main_from_input_wrapping(key, st) ==
    LET n == Len(st.selected)
    IN  IF st.from_list_open THEN
            IF key = "UP" THEN
                [handled |-> TRUE,
                 st |-> [st EXCEPT !.from_list_idx = (st.from_list_idx - 1) % n]]
            ELSE IF key = "DOWN" THEN
                [handled |-> TRUE,
                 st |-> [st EXCEPT !.from_list_idx = (st.from_list_idx + 1) % n]]
            ELSE IF key = "ESC" THEN
                [handled |-> TRUE, st |-> [st EXCEPT !.from_list_open = FALSE]]
            ELSE IF key \in ENTER_KEYS THEN
                [handled |-> TRUE,
                 st |-> compute_results([st EXCEPT !.from_idx = st.from_list_idx,
                                                   !.from_list_open = FALSE,
                                                   !.focus_main = 1,
                                                   !.cursor_start = TIME_FIRST_DIGIT])]
            ELSE [handled |-> FALSE, st |-> st]
        ELSE
            IF key \in {"UP", "DOWN"} THEN
                [handled |-> TRUE, st |-> from_step(st, IF key = "UP" THEN -1 ELSE 1)]
            ELSE IF st.focus_main = 0 /\ key \in ENTER_KEYS \cup {" "} THEN
                [handled |-> TRUE,
                 st |-> [st EXCEPT !.from_list_open = ~st.from_list_open,
                                   !.from_list_idx = st.from_idx]]
            ELSE [handled |-> FALSE, st |-> st]

\* a faulty variant of main_from_input whose Enter closes the dropdown
\* without taking the highlighted zone
main_from_input_no_commit(key, st) ==
    LET n == Len(st.selected)
    IN  IF st.from_list_open THEN
            IF key = "UP" THEN
                [handled |-> TRUE,
                 st |-> [st EXCEPT !.from_list_idx = Max(0, st.from_list_idx - 1)]]
            ELSE IF key = "DOWN" THEN
                [handled |-> TRUE,
                 st |-> [st EXCEPT !.from_list_idx = Min(n - 1, st.from_list_idx + 1)]]
            ELSE IF key = "ESC" THEN
                [handled |-> TRUE, st |-> [st EXCEPT !.from_list_open = FALSE]]
            ELSE IF key \in ENTER_KEYS THEN
                [handled |-> TRUE,
                 st |-> [st EXCEPT !.from_list_open = FALSE,
                                   !.focus_main = 1,
                                   !.cursor_start = TIME_FIRST_DIGIT]]
            ELSE [handled |-> FALSE, st |-> st]
        ELSE
            IF key \in {"UP", "DOWN"} THEN
                [handled |-> TRUE, st |-> from_step(st, IF key = "UP" THEN -1 ELSE 1)]
            ELSE IF st.focus_main = 0 /\ key \in ENTER_KEYS \cup {" "} THEN
                [handled |-> TRUE,
                 st |-> [st EXCEPT !.from_list_open = ~st.from_list_open,
                                   !.from_list_idx = st.from_idx]]
            ELSE [handled |-> FALSE, st |-> st]

\* the From TZ branch of handle_main_input (state["selected"] non-empty);
\* handled is FALSE when the key falls through to the rest of the function
main_from_input(key, st) ==
    LET n == Len(st.selected)
    IN  IF st.from_list_open THEN
            IF key = "UP" THEN
                [handled |-> TRUE,
                 st |-> [st EXCEPT !.from_list_idx = Max(0, st.from_list_idx - 1)]]
            ELSE IF key = "DOWN" THEN
                [handled |-> TRUE,
                 st |-> [st EXCEPT !.from_list_idx = Min(n - 1, st.from_list_idx + 1)]]
            ELSE IF key = "ESC" THEN
                [handled |-> TRUE, st |-> [st EXCEPT !.from_list_open = FALSE]]
            ELSE IF key \in ENTER_KEYS THEN
                [handled |-> TRUE,
                 st |-> compute_results([st EXCEPT !.from_idx = st.from_list_idx,
                                                   !.from_list_open = FALSE,
                                                   !.focus_main = 1,
                                                   !.cursor_start = TIME_FIRST_DIGIT])]
            ELSE [handled |-> FALSE, st |-> st]
        ELSE
            IF key \in {"UP", "DOWN"} THEN
                [handled |-> TRUE, st |-> from_step(st, IF key = "UP" THEN -1 ELSE 1)]
            ELSE IF st.focus_main = 0 /\ key \in ENTER_KEYS \cup {" "} THEN
                [handled |-> TRUE,
                 st |-> [st EXCEPT !.from_list_open = ~st.from_list_open,
                                   !.from_list_idx = st.from_idx]]
            ELSE [handled |-> FALSE, st |-> st]

\* a faulty variant of focus_step that stops at the first and last widget
focus_step_clamped(focus, step) == Max(0, Min(2, focus + step))

\* the focus Tab (step 1) and Shift-Tab (step -1) move to, on either screen
focus_step(focus, step) == (focus + step) % 3

\* a faulty variant of help_input that Escape does not close
help_input_no_escape(key, st) ==
    IF key \in {"?", "q", "Q", "ENTER"}
    THEN [changed |-> TRUE, st |-> [st EXCEPT !.help_open = FALSE]]
    ELSE [changed |-> FALSE, st |-> st]

\* a faulty variant of help_input that lets Tab through to the focus
help_input_leaky(key, st) ==
    IF key \in {"?", "ESC", "q", "Q", "ENTER"}
    THEN [changed |-> TRUE, st |-> [st EXCEPT !.help_open = FALSE]]
    ELSE IF key = "TAB"
    THEN [changed |-> TRUE, st |-> [st EXCEPT !.focus_main = (st.focus_main + 1) % 3]]
    ELSE [changed |-> FALSE, st |-> st]

\* the help_open branch of both key handlers: the overlay takes every key
\* and only closes
help_input(key, st) ==
    IF key \in {"?", "ESC", "q", "Q", "ENTER"}
    THEN [changed |-> TRUE, st |-> [st EXCEPT !.help_open = FALSE]]
    ELSE [changed |-> FALSE, st |-> st]

\* handle_main_input(key, state) at the clock reading now: the state left
\* behind and the returned flag
handle_main_input(key, st, now) ==
    LET rest(from) ==
            IF from.handled THEN [changed |-> TRUE, st |-> from.st]
            ELSE IF key = "NPAGE" THEN
                [changed |-> TRUE, st |-> [st EXCEPT !.results_scroll = st.results_scroll + 3]]
            ELSE IF key = "PPAGE" THEN
                [changed |-> TRUE, st |-> [st EXCEPT !.results_scroll = st.results_scroll - 3]]
            ELSE IF st.focus_main \in {1, 2} THEN main_field_input(key, st)
            ELSE [changed |-> FALSE, st |-> st]
    IN
    IF key = "NONE" THEN [changed |-> FALSE, st |-> st]
    ELSE IF st.help_open THEN help_input(key, st)
    ELSE IF key \in {"q", "Q"} THEN
        [changed |-> FALSE, st |-> [st EXCEPT !.quit = TRUE]]
    ELSE IF key = "?" THEN
        [changed |-> TRUE, st |-> [st EXCEPT !.help_open = TRUE, !.from_list_open = FALSE]]
    ELSE IF key \in {"s", "S"} THEN
        [changed |-> TRUE, st |-> open_settings(st)]
    ELSE IF key \in {"r", "R"} THEN
        [changed |-> TRUE, st |-> compute_results(reset_inputs(st, now))]
    ELSE IF key \in {"m", "M"} THEN
        [changed |-> TRUE, st |-> set_mouse_enabled(st, ~st.mouse_enabled)]
    ELSE IF key = "TAB" \/ key = "BTAB" THEN
        LET f  == focus_step(st.focus_main, IF key = "TAB" THEN 1 ELSE -1)
            s1 == [st EXCEPT !.focus_main = f, !.from_list_open = FALSE]
        IN  [changed |-> TRUE,
             st |-> IF f = 1 THEN [s1 EXCEPT !.cursor_start = TIME_FIRST_DIGIT]
                    ELSE IF f = 2 THEN [s1 EXCEPT !.cursor_end = TIME_FIRST_DIGIT]
                    ELSE s1]
    ELSE rest(IF Len(st.selected) > 0 THEN main_from_input(key, st)
              ELSE [handled |-> FALSE, st |-> st])

-----------------------------------------------------------------------------
(* Settings: the two list panes.                                           *)

SORT_MODES == <<"Name (A-Z)", "UTC offset now", "UTC offset at span start">>
VIEW_MODES == <<"flat", "country">>

\* Python's list[i]: a negative i counts from the end; ok is FALSE where
\* Python raises IndexError
PyIndex(q, i) ==
    IF i >= 0 /\ i < Len(q) THEN [ok |-> TRUE, at |-> i + 1]
    ELSE IF i < 0 /\ i >= 0 - Len(q) THEN [ok |-> TRUE, at |-> Len(q) + i + 1]
    ELSE [ok |-> FALSE, at |-> 0]

\* an exception leaving a handler
Raise(st, name) == [st EXCEPT !.exc = name]

get_span_start_instant(st) ==
    LET attach(p) == IF ~p.ok THEN [none |-> TRUE]
                     ELSE [none |-> FALSE, dt |-> Attach(p.dt, FromZone(st))]
    IN  IF Len(st.selected) = 0 THEN [none |-> TRUE]
        ELSE attach(parse_dt(st.start_text))

\* offset_seconds_for(tz_name, instant) with instant given (not None)
offset_seconds_at(z, instant) ==
    LET off(c) == [raise |-> c.raise,
                   secs  |-> IF c.raise THEN 0
                             ELSE IF instant.tz = z THEN 60 * UtcOffsetAtWall(z, Naive(instant))
                             ELSE 60 * UtcOffsetAtUtc(z, ToUtc(instant))]
    IN  off(AsTimezone(instant, z))

\* offset_seconds_for(tz_name, None) at the clock reading now
offset_seconds_now(z, now) == 60 * UtcOffsetAtUtc(z, now)

\* get_all_list(state): the list, or raise when a sort key cannot be computed
get_all_list(st, now) ==
    LET matching(filt) ==
            IF filt # "" THEN SelectSeq(st.all_zones, LAMBDA z : Contains(Lower(z), filt))
            ELSE st.all_zones
        sorted(zs, offs) ==
            IF \E i \in 1..Len(zs) : offs[i].raise THEN [raise |-> TRUE, list |-> << >>]
            ELSE LET pairs == SortSeq([i \in 1..Len(zs) |-> [k |-> offs[i].secs, z |-> zs[i]]],
                                      LAMBDA a, b : a.k < b.k \/ (a.k = b.k /\ StrLess(a.z, b.z)))
                 IN  [raise |-> FALSE, list |-> [i \in 1..Len(zs) |-> pairs[i].z]]
        keyed(zs, inst) ==
            sorted(zs, [i \in 1..Len(zs) |->
                          IF st.sort_mode = 1 \/ inst.none
                          THEN [raise |-> FALSE, secs |-> offset_seconds_now(zs[i], now)]
                          ELSE offset_seconds_at(zs[i], inst.dt)])
        ordered(zs) ==
            IF st.sort_mode = 0 THEN [raise |-> FALSE, list |-> SortSeq(zs, StrLess)]
            ELSE keyed(zs, IF st.sort_mode = 2 THEN get_span_start_instant(st) ELSE [none |-> TRUE])
    IN  ordered(matching(Lower(Strip(st.filter_text))))

\* a faulty variant of GroupRows in which a matching country name or code
\* does not bring in the entries of the group
GroupRows_entries_only(g, filt) ==
    LET HeaderRow ==
            [kind |-> "header", tz_id |-> "", is_alias |-> FALSE, alias_target |-> "",
             country_name |-> g.name, country_code |-> g.cc]
        TzRow(e) ==
            [kind |-> "tz", tz_id |-> e.tz_id, is_alias |-> e.is_alias,
             alias_target |-> e.alias_target, country_name |-> g.name, country_code |-> g.cc]
        matched == IF filt = "" THEN g.entries
                   ELSE SelectSeq(g.entries,
                          LAMBDA e : \/ Contains(Lower(e.tz_id), filt)
                                     \/ Contains(Lower(e.alias_target), filt))
    IN  IF Len(matched) = 0 THEN << >>
        ELSE <<HeaderRow>> \o [i \in 1..Len(matched) |-> TzRow(matched[i])]

\* the rows one group contributes
GroupRows(g, filt) ==
    LET HeaderRow ==
            [kind |-> "header", tz_id |-> "", is_alias |-> FALSE, alias_target |-> "",
             country_name |-> g.name, country_code |-> g.cc]
        TzRow(e) ==
            [kind |-> "tz", tz_id |-> e.tz_id, is_alias |-> e.is_alias,
             alias_target |-> e.alias_target, country_name |-> g.name, country_code |-> g.cc]
        country_match == filt # "" /\ (Contains(Lower(g.name), filt) \/ Contains(Lower(g.cc), filt))
        matched == IF filt = "" THEN g.entries
                   ELSE SelectSeq(g.entries,
                          LAMBDA e : \/ Contains(Lower(e.tz_id), filt)
                                     \/ Contains(Lower(e.alias_target), filt)
                                     \/ country_match)
    IN  IF Len(matched) = 0 THEN << >>
        ELSE <<HeaderRow>> \o [i \in 1..Len(matched) |-> TzRow(matched[i])]

RECURSIVE ConcatGroupRows(_, _)
ConcatGroupRows(groups, filt) ==
    IF Len(groups) = 0 THEN << >>
    ELSE GroupRows(Head(groups), filt) \o ConcatGroupRows(Tail(groups), filt)

\* a faulty variant of build_country_rows that sorts the groups by name
\* and code alone
build_country_rows_by_name(mapping, filter_text) ==
    LET GroupLess(a, b) == StrLess(a.name, b.name) \/ (a.name = b.name /\ StrLess(a.cc, b.cc))
    IN  ConcatGroupRows(SortSeq(SetToSeq(mapping), GroupLess), Lower(Strip(filter_text)))

\* build_country_rows(mapping, filter_text); mapping is the set of groups
\* [name, cc, entries], one per dict key
build_country_rows(mapping, filter_text) ==
    LET \* sort_key: the fallback group last, then by name, then by code
        last(g) == IF g.cc = "ZZ" THEN 1 ELSE 0
        GroupLess(a, b) ==
            \/ last(a) < last(b)
            \/ last(a) = last(b) /\ StrLess(a.name, b.name)
            \/ last(a) = last(b) /\ a.name = b.name /\ StrLess(a.cc, b.cc)
    IN  ConcatGroupRows(SortSeq(SetToSeq(mapping), GroupLess), Lower(Strip(filter_text)))

\* the while loop of next_selectable_index from idx
RECURSIVE ScanSelectable(_, _, _, _)
ScanSelectable(rows, idx, direction, fallback) ==
    IF idx < 0 \/ idx >= Len(rows) THEN fallback
    ELSE IF rows[idx + 1].kind = "tz" THEN idx
    ELSE ScanSelectable(rows, idx + direction, direction, fallback)

next_selectable_index(rows, start_idx, direction) ==
    IF Len(rows) = 0 THEN 0
    ELSE LET idx == Max(0, Min(start_idx, Len(rows) - 1))
         IN  ScanSelectable(rows, idx, direction, idx)

-----------------------------------------------------------------------------
(* Settings actions.                                                       *)

\* the tail of settings_add once the name is known
settings_add_name(st, name) ==
    IF name = "" THEN [st EXCEPT !.settings_msg = "Select a time zone row."]
    ELSE IF name \notin SeqToSet(st.all_zones)
    THEN [st EXCEPT !.settings_msg = "Invalid zone: " \o name]
    ELSE IF name \in SeqToSet(st.settings_selected)
    THEN [st EXCEPT !.settings_msg = "Already selected."]
    ELSE [st EXCEPT !.settings_selected = Append(st.settings_selected, name),
                    !.settings_msg = "Added " \o name \o "."]

settings_add(st, now) ==
    LET flat(al) ==
            IF al.raise THEN Raise(st, "OverflowError")
            ELSE IF Len(al.list) = 0 THEN [st EXCEPT !.settings_msg = "No zones to add."]
            ELSE IF ~PyIndex(al.list, st.all_idx).ok THEN Raise(st, "IndexError")
            ELSE settings_add_name(st, al.list[PyIndex(al.list, st.all_idx).at])
        header(rows, idx) ==
            IF rows[idx + 1].kind # "tz"
            THEN [st EXCEPT !.settings_msg = "Select a time zone row."]
            ELSE settings_add_name([st EXCEPT !.all_idx = idx], rows[idx + 1].tz_id)
        country(rows) ==
            IF Len(rows) = 0 THEN [st EXCEPT !.settings_msg = "No zones to add."]
            ELSE IF ~PyIndex(rows, st.all_idx).ok THEN Raise(st, "IndexError")
            ELSE IF rows[PyIndex(rows, st.all_idx).at].kind # "tz"
            THEN header(rows, next_selectable_index(rows, st.all_idx, 1))
            ELSE settings_add_name(st, rows[PyIndex(rows, st.all_idx).at].tz_id)
    IN  IF st.view_mode = 0 THEN flat(get_all_list(st, now))
        ELSE country(build_country_rows(st.country_map, st.filter_text))

\* a faulty variant of settings_remove that also removes the last zone
settings_remove_unguarded(st) ==
    IF ~PyIndex(st.settings_selected, st.sel_idx).ok THEN Raise(st, "IndexError")
    ELSE LET k    == PyIndex(st.settings_selected, st.sel_idx).at
             rest == SubSeq(st.settings_selected, 1, k - 1)
                       \o SubSeq(st.settings_selected, k + 1, Len(st.settings_selected))
         IN  [st EXCEPT !.settings_selected = rest,
                        !.sel_idx = Max(0, Min(st.sel_idx, Len(rest) - 1)),
                        !.settings_msg = "Removed " \o st.settings_selected[k] \o "."]

settings_remove(st) ==
    IF Len(st.settings_selected) <= 1
    THEN [st EXCEPT !.settings_msg = "At least one zone must remain."]
    ELSE IF ~PyIndex(st.settings_selected, st.sel_idx).ok THEN Raise(st, "IndexError")
    ELSE LET k    == PyIndex(st.settings_selected, st.sel_idx).at
             rest == SubSeq(st.settings_selected, 1, k - 1)
                       \o SubSeq(st.settings_selected, k + 1, Len(st.settings_selected))
         IN  [st EXCEPT !.settings_selected = rest,
                        !.sel_idx = Max(0, Min(st.sel_idx, Len(rest) - 1)),
                        !.settings_msg = "Removed " \o st.settings_selected[k] \o "."]

\* items[i], items[j] = items[j], items[i] for 0-based i, j
PySwap(q, i, j) == [q EXCEPT ![PyIndex(q, i).at] = q[PyIndex(q, j).at],
                             ![PyIndex(q, j).at] = q[PyIndex(q, i).at]]

settings_move_up(st) ==
    LET idx == st.sel_idx
    IN  IF idx <= 0 THEN st
        ELSE IF ~PyIndex(st.settings_selected, idx).ok THEN Raise(st, "IndexError")
        ELSE [st EXCEPT !.settings_selected = PySwap(st.settings_selected, idx - 1, idx),
                        !.sel_idx = idx - 1]

settings_move_down(st) ==
    LET idx == st.sel_idx
    IN  IF idx >= Len(st.settings_selected) - 1 THEN st
        ELSE IF ~PyIndex(st.settings_selected, idx).ok THEN Raise(st, "IndexError")
        ELSE [st EXCEPT !.settings_selected = PySwap(st.settings_selected, idx + 1, idx),
                        !.sel_idx = idx + 1]

\* a faulty variant of save_settings that writes the file but leaves the
\* selection of the session as it was
save_settings_file_only(st) ==
    IF Len(st.settings_selected) = 0
    THEN [changed |-> FALSE,
          st |-> [st EXCEPT !.settings_msg = "Select at least one zone before saving."]]
    ELSE LET s2 == apply_box_mode(st, st.settings_box_mode)
             s3 == apply_color_settings(s2, s2.settings_colors_enabled, s2.settings_theme)
             s4 == save_config(s3, st.settings_selected, s3.box_mode, s3.colors_enabled,
                               s3.theme_name)
         IN  [changed |-> TRUE,
              st |-> compute_results([s4 EXCEPT !.settings_open = FALSE,
                                                !.from_list_open = FALSE])]

\* save_settings(state): the state left behind and the returned flag
save_settings(st) ==
    IF Len(st.settings_selected) = 0
    THEN [changed |-> FALSE,
          st |-> [st EXCEPT !.settings_msg = "Select at least one zone before saving."]]
    ELSE LET s1 == [st EXCEPT !.selected = st.settings_selected,
                              !.from_idx = Min(st.from_idx, Len(st.settings_selected) - 1)]
             s2 == apply_box_mode(s1, s1.settings_box_mode)
             s3 == apply_color_settings(s2, s2.settings_colors_enabled, s2.settings_theme)
             s4 == save_config(s3, s3.selected, s3.box_mode, s3.colors_enabled, s3.theme_name)
         IN  [changed |-> TRUE,
              st |-> compute_results([s4 EXCEPT !.settings_open = FALSE,
                                                !.from_list_open = FALSE])]

\* a faulty variant of cancel_settings that leaves the previewed box mode,
\* colors and theme in force
cancel_settings_keep_preview(st) ==
    [st EXCEPT !.settings_open = FALSE,
               !.settings_selected = st.settings_original,
               !.settings_msg = ""]

cancel_settings(st) ==
    LET s1 == [st EXCEPT !.settings_open = FALSE, !.settings_selected = st.settings_original]
        s2 == apply_box_mode(s1, s1.settings_original_box_mode)
        s3 == apply_color_settings(s2, s2.settings_original_colors, s2.settings_original_theme)
    IN  [s3 EXCEPT !.settings_msg = ""]

-----------------------------------------------------------------------------
(* Input handling on the settings screen.                                  *)

\* the box / colors / theme toggles shared by keys and buttons
toggle_box(st) ==
    LET want == IF st.settings_box_mode = "ascii" THEN "unicode" ELSE "ascii"
    IN  apply_box_mode([st EXCEPT !.settings_box_mode = want], want)

toggle_colors(st) ==
    LET s1 == IF ~st.colors_supported
              THEN [st EXCEPT !.settings_msg = "Colors unsupported.",
                              !.settings_colors_enabled = FALSE]
              ELSE [st EXCEPT !.settings_colors_enabled = ~st.settings_colors_enabled]
    IN  apply_color_settings(s1, s1.settings_colors_enabled, s1.settings_theme)

toggle_theme(st) ==
    LET index(name) == CHOOSE i \in 1..Len(THEME_NAMES) : THEME_NAMES[i] = name
        next(name) == IF name \in THEMES
                      THEN THEME_NAMES[(index(name) % Len(THEME_NAMES)) + 1]
                      ELSE THEME_NAMES[1]
        s1 == [st EXCEPT !.settings_theme = next(st.settings_theme)]
    IN  apply_color_settings(s1, s1.settings_colors_enabled, s1.settings_theme)

\* max(1, state["settings_boxes"][pane][2] - 1); ok is FALSE where the
\* lookup raises KeyError (no settings frame has stored the boxes yet)
PageSize(st, pane) ==
    IF ~st.settings_boxes.has THEN [ok |-> FALSE, page |-> 0]
    ELSE [ok |-> TRUE,
          page |-> Max(1, (IF pane = "all" THEN st.settings_boxes.all[3]
                           ELSE st.settings_boxes.selected[3]) - 1)]

Done(s) == [changed |-> TRUE, st |-> s]
Ignored(s) == [changed |-> FALSE, st |-> s]
ManualOff(s) == [s EXCEPT !.all_scroll_manual = FALSE]

\* settings_focus == 0: the filter field
settings_filter_input(key, st) ==
    IF key \in ENTER_KEYS THEN Done([st EXCEPT !.settings_focus = (st.settings_focus + 1) % 3])
    ELSE IF key = "BACKSPACE" THEN
        IF st.filter_cursor > 0 THEN
            LET i == st.filter_cursor
            IN  Done([st EXCEPT !.filter_text = PySlice(st.filter_text, 0, i - 1)
                                                  \o PySlice(st.filter_text, i, Len(st.filter_text)),
                                !.filter_cursor = i - 1,
                                !.all_scroll_manual = FALSE,
                                !.all_scroll = 0])
        ELSE Done(st)
    ELSE IF key = "LEFT" THEN Done([st EXCEPT !.filter_cursor = Max(0, st.filter_cursor - 1)])
    ELSE IF key = "RIGHT" THEN
        Done([st EXCEPT !.filter_cursor = Min(Len(st.filter_text), st.filter_cursor + 1)])
    ELSE IF IsPrintable(key) THEN
        LET i == st.filter_cursor
        IN  Done([st EXCEPT !.filter_text = PySlice(st.filter_text, 0, i) \o key
                                              \o PySlice(st.filter_text, i, Len(st.filter_text)),
                            !.filter_cursor = i + 1,
                            !.all_idx = 0,
                            !.all_scroll = 0,
                            !.all_scroll_manual = FALSE])
    ELSE Ignored(st)

\* settings_focus == 1, flat view
settings_all_flat_input(key, st, now) ==
    LET paged(n, pg, sign) ==
            IF ~pg.ok THEN Done(Raise(st, "KeyError"))
            ELSE Done(ManualOff(IF n = 0 THEN st
                                ELSE IF sign > 0
                                THEN [st EXCEPT !.all_idx = Min(n - 1, st.all_idx + pg.page)]
                                ELSE [st EXCEPT !.all_idx = Max(0, st.all_idx - pg.page)]))
        on(al, n) ==
            IF al.raise THEN Done(Raise(st, "OverflowError"))
            ELSE IF key = "UP" THEN Done(ManualOff([st EXCEPT !.all_idx = Max(0, st.all_idx - 1)]))
            ELSE IF key = "DOWN"
            THEN Done(ManualOff([st EXCEPT !.all_idx = Min(n - 1, st.all_idx + 1)]))
            ELSE IF key = "HOME" THEN Done(ManualOff(IF n > 0 THEN [st EXCEPT !.all_idx = 0] ELSE st))
            ELSE IF key = "END"
            THEN Done(ManualOff(IF n > 0 THEN [st EXCEPT !.all_idx = n - 1] ELSE st))
            ELSE IF key \in {"NPAGE", "PPAGE"}
            THEN paged(n, PageSize(st, "all"), IF key = "NPAGE" THEN 1 ELSE -1)
            ELSE IF key \in ENTER_KEYS \cup {"a", "A"} THEN Done(settings_add(st, now))
            ELSE Ignored(st)
        with(al) == on(al, Len(al.list))
    IN  with(get_all_list(st, now))

\* settings_focus == 1, country view; handled is FALSE when the key falls
\* through to the rest of the function
settings_all_country_input(key, st, now) ==
    LET go(i) == Done(ManualOff([st EXCEPT !.all_idx = i]))
        paged(rows, pg, sign) ==
            IF ~pg.ok THEN Done(Raise(st, "KeyError"))
            ELSE go(next_selectable_index(rows, st.all_idx + sign * pg.page, sign))
        on(rows) ==
            IF Len(rows) = 0 THEN Ignored(st)
            ELSE IF key \in {"UP", "DOWN"}
            THEN go(next_selectable_index(rows, st.all_idx + (IF key = "UP" THEN -1 ELSE 1),
                                          IF key = "UP" THEN -1 ELSE 1))
            ELSE IF key = "HOME" THEN go(next_selectable_index(rows, 0, 1))
            ELSE IF key = "END" THEN go(next_selectable_index(rows, Len(rows) - 1, -1))
            ELSE IF key \in {"NPAGE", "PPAGE"}
            THEN paged(rows, PageSize(st, "all"), IF key = "NPAGE" THEN 1 ELSE -1)
            ELSE IF key \in ENTER_KEYS \cup {"a", "A"} THEN Done(settings_add(st, now))
            ELSE Ignored(st)
    IN  on(build_country_rows(st.country_map, st.filter_text))

\* settings_focus == 2: the selected list
settings_selected_input(key, st) ==
    LET n == Len(st.settings_selected)
        SelOff(s) == [s EXCEPT !.sel_scroll_manual = FALSE]
        paged(pg, sign) ==
            IF ~pg.ok THEN Done(Raise(st, "KeyError"))
            ELSE Done(SelOff(IF n = 0 THEN st
                             ELSE IF sign > 0
                             THEN [st EXCEPT !.sel_idx = Min(n - 1, st.sel_idx + pg.page)]
                             ELSE [st EXCEPT !.sel_idx = Max(0, st.sel_idx - pg.page)]))
    IN  IF key = "UP" THEN Done(SelOff([st EXCEPT !.sel_idx = Max(0, st.sel_idx - 1)]))
        ELSE IF key = "DOWN" THEN Done(SelOff([st EXCEPT !.sel_idx = Min(n - 1, st.sel_idx + 1)]))
        ELSE IF key = "HOME" THEN Done(SelOff(IF n > 0 THEN [st EXCEPT !.sel_idx = 0] ELSE st))
        ELSE IF key = "END" THEN Done(SelOff(IF n > 0 THEN [st EXCEPT !.sel_idx = n - 1] ELSE st))
        ELSE IF key \in {"NPAGE", "PPAGE"}
        THEN paged(PageSize(st, "selected"), IF key = "NPAGE" THEN 1 ELSE -1)
        ELSE IF key \in {"d", "D", "DC"} THEN Done(settings_remove(st))
        ELSE IF key \in {"u", "U"} THEN Done(settings_move_up(st))
        ELSE IF key \in {"j", "J"} THEN Done(settings_move_down(st))
        ELSE Ignored(st)

\* a faulty variant of toggle_view that does not look at country_error
toggle_view_unchecked(st) ==
    LET vm == (st.view_mode + 1) % Len(VIEW_MODES)
    IN  [st EXCEPT !.view_mode = vm, !.all_idx = 0, !.all_scroll = 0,
                   !.settings_msg = IF vm = 0 THEN "" ELSE st.settings_msg,
                   !.all_scroll_manual = FALSE]

\* the view-toggle key of handle_settings_input
toggle_view(st) ==
    IF st.country_error # "" THEN [st EXCEPT !.settings_msg = "Country view unavailable."]
    ELSE LET vm == (st.view_mode + 1) % Len(VIEW_MODES)
         IN  [st EXCEPT !.view_mode = vm, !.all_idx = 0, !.all_scroll = 0,
                        !.settings_msg = IF vm = 0 THEN "" ELSE st.settings_msg,
                        !.all_scroll_manual = FALSE]

\* handle_settings_input(key, state) at the clock reading now
handle_settings_input(key, st, now) ==
    IF key = "NONE" THEN Ignored(st)
    ELSE IF st.help_open THEN help_input(key, st)
    ELSE IF key = "?" THEN Done([st EXCEPT !.help_open = TRUE])
    ELSE IF key = "TAB" THEN Done([st EXCEPT !.settings_focus = focus_step(st.settings_focus, 1)])
    ELSE IF key = "BTAB" THEN Done([st EXCEPT !.settings_focus = focus_step(st.settings_focus, -1)])
    ELSE IF key = "ESC" THEN Done(cancel_settings(st))
    ELSE IF st.settings_focus = 0 THEN settings_filter_input(key, st)
    ELSE IF key \in {"q", "Q"} THEN Done(cancel_settings(st))
    ELSE IF key \in {"m", "M"} THEN Done(set_mouse_enabled(st, ~st.mouse_enabled))
    ELSE IF key \in {"s", "S"} THEN save_settings(st)
    ELSE IF key \in {"b", "B"} THEN Done(toggle_box(st))
    ELSE IF key \in {"c", "C"} THEN Done(toggle_colors(st))
    ELSE IF key \in {"t", "T"} THEN Done(toggle_theme(st))
    ELSE IF key \in {"v", "V"} THEN Done(toggle_view(st))
    ELSE IF key \in {"o", "O"} THEN
        IF st.view_mode = 0
        THEN Done([st EXCEPT !.sort_mode = (st.sort_mode + 1) % Len(SORT_MODES),
                             !.settings_msg = "", !.all_scroll_manual = FALSE])
        ELSE Done([st EXCEPT !.settings_msg = "Sort modes only in flat view."])
    ELSE IF st.settings_focus = 1
    THEN IF st.view_mode = 0 THEN settings_all_flat_input(key, st, now)
         ELSE settings_all_country_input(key, st, now)
    ELSE IF st.settings_focus = 2 THEN settings_selected_input(key, st)
    ELSE Ignored(st)

-----------------------------------------------------------------------------
(* Regions and scrolling.                                                  *)

\* add_region(regions, y1, x1, y2, x2, action, payload); the payload is
\* << >> for None, <<i>> for an int and the tuple itself for a tuple
add_region(regions, y1, x1, y2, x2, action, payload) ==
    IF x2 < x1 \/ y2 < y1 THEN regions
    ELSE Append(regions, [y1 |-> y1, x1 |-> x1, y2 |-> y2, x2 |-> x2,
                          action |-> action, payload |-> payload])

\* a faulty variant of region_hit that scans in registration order
region_hit_first(regions, x, y) ==
    LET contains(r) == r.y1 <= y /\ y <= r.y2 /\ r.x1 <= x /\ x <= r.x2
        hits == {i \in 1..Len(regions) : contains(regions[i])}
    IN  IF hits = {} THEN [hit |-> FALSE, action |-> "", payload |-> << >>]
        ELSE LET k == CHOOSE i \in hits : \A j \in hits : i <= j
             IN  [hit |-> TRUE, action |-> regions[k].action, payload |-> regions[k].payload]

\* region_hit(regions, x, y): hit is FALSE for None
region_hit(regions, x, y) ==
    LET contains(r) == r.y1 <= y /\ y <= r.y2 /\ r.x1 <= x /\ x <= r.x2
        hits == {i \in 1..Len(regions) : contains(regions[i])}
    IN  IF hits = {} THEN [hit |-> FALSE, action |-> "", payload |-> << >>]
        ELSE LET k == CHOOSE i \in hits : \A j \in hits : j <= i
             IN  [hit |-> TRUE, action |-> regions[k].action, payload |-> regions[k].payload]

ensure_visible(idx, scroll, height, total) ==
    IF total <= height THEN 0
    ELSE IF idx < scroll THEN idx
    ELSE IF idx >= scroll + height THEN Max(0, idx - height + 1)
    ELSE scroll

clamp_scroll(scroll, height, total) ==
    IF total <= height THEN 0 ELSE Max(0, Min(scroll, total - height))

\* btn(y, x, key_char, label_rest, action) of the render functions: the
\* region of a button drawn at inner column x, and the column after it
ButtonWidth(label_rest) == 3 + Len(label_rest)

AddButton(regions, oy, ox, y, x, label_rest, action) ==
    add_region(regions, oy + y, ox + x, oy + y, ox + x + ButtonWidth(label_rest) - 1, action, << >>)

AfterButton(x, label_rest) == x + ButtonWidth(label_rest) + 1

RECURSIVE MaxLen(_)
MaxLen(q) == IF Len(q) = 0 THEN 0 ELSE Max(Len(Head(q)), MaxLen(Tail(q)))

-----------------------------------------------------------------------------
(* The main screen's frame: what render_main leaves in the state.  The     *)
(* terminal is env_size = <<h, w>>.                                        *)

\* the regions of the From TZ dropdown, items first..last (0-based, last
\* exclusive) drawn in a box at (box_y, box_x) of size box_h x box_w
RECURSIVE DropdownRegions(_, _, _, _, _, _, _, _, _)
DropdownRegions(regions, st, i, first, last, box_y, box_x, box_h, box_w) ==
    LET item_y == 1 + (i - first)
        labels == SubSeq(st.selected, first + 1, last)
        item_len == Min(MaxLen(labels) + 2, Max(0, box_w - 2))
    IN  IF i >= last \/ item_y >= box_h - 1 THEN regions
        ELSE DropdownRegions(
                 add_region(regions, box_y + item_y, box_x + 1, box_y + item_y,
                            box_x + 1 + item_len - 1, "from_select", <<i>>),
                 st, i + 1, first, last, box_y, box_x, box_h, box_w)

render_main(st) ==
    LET h  == st.env_size[1]
        w  == st.env_size[2]
        ox == IF w >= 3 THEN 1 ELSE 0
        oy == IF h >= 3 THEN 1 ELSE 0
        iw == w - ox * 2
        ih == h - oy * 2
        s0 == [st EXCEPT !.regions = << >>, !.last_size = <<h, w>>]
    IN  IF iw < 80 \/ ih < 20 THEN s0
        ELSE
        LET \* the header line under the title, before wrapping
            header == "m=mouse(" \o (IF st.mouse_enabled THEN "on" ELSE "off") \o ")  ?=help"
                        \o (IF st.box_warning # "" THEN "  " \o st.box_warning ELSE "")
                        \o (IF st.colors_warning # "" THEN "  " \o st.colors_warning ELSE "")
            \* len(wrap_text_lines(header, iw)): its words are short, so it
            \* takes one line when it fits and two otherwise
            bl == 2 + (IF Len(header) <= iw THEN 1 ELSE 2)
            r1 == AddButton(<< >>, oy, ox, bl, 0, "eset", "button_reset")
            x1 == AfterButton(0, "eset")
            r2 == AddButton(r1, oy, ox, bl, x1, "ettings", "button_settings")
            x2 == AfterButton(x1, "ettings")
            r3 == AddButton(r2, oy, ox, bl, x2, "uit", "button_quit")
            fl == bl + 3
            from_width == Max(8, Min(24, IF Len(st.selected) = 0 THEN 8 ELSE MaxLen(st.selected)))
            xu == Len("From TZ: ")
            r4 == add_region(r3, oy + fl, ox + xu, oy + fl, ox + xu + 2, "from_prev", << >>)
            xv == xu + 4
            r5 == add_region(r4, oy + fl, ox + xv, oy + fl, ox + xv + from_width + 1,
                             "from_toggle", << >>)
            from_value_start == xv + 1
            xd == xv + from_width + 3
            r6 == add_region(r5, oy + fl, ox + xd, oy + fl, ox + xd + 2, "from_next", << >>)
            xs == xd + 5
            start_value_start == xs + Len("Start: ") + 1
            start_value_end == start_value_start + INPUT_LEN - 1
            r7 == add_region(r6, oy + fl, ox + xs, oy + fl, ox + start_value_end + 1,
                             "focus_field",
                             <<"start", ox + start_value_start, ox + start_value_end>>)
            xe == (xs + Len("Start: ") + 1 + INPUT_LEN + 1) + 2
            end_value_start == xe + Len("End: ") + 1
            end_value_end == end_value_start + INPUT_LEN - 1
            r8 == add_region(r7, oy + fl, ox + xe, oy + fl, ox + end_value_end + 1,
                             "focus_field",
                             <<"end", ox + end_value_start, ox + end_value_end>>)
            table_top == fl + 4
            zone_w == Max(12, Min(28, iw - (5 + 3 * 19)))
            dt_w == Max(19, (iw - zone_w - 5) \div 3)
            max_rows == Max(1, ((ih - table_top) - 3) \div 2)
            scroll == clamp_scroll(st.results_scroll, max_rows, Len(st.results))
            end_idx == Min(Len(st.results), scroll + max_rows)
            row_count == Max(0, end_idx - scroll)
            row_start == table_top + 3
            s1 == [s0 EXCEPT !.results_scroll = scroll,
                             !.results_layout = [has |-> TRUE, row_start |-> oy + row_start,
                                                 row_step |-> 2, start_idx |-> scroll,
                                                 visible |-> row_count, zone_w |-> zone_w,
                                                 dt_w |-> dt_w, table_x |-> ox]]
        IN  IF st.from_list_open /\ Len(st.selected) > 0 THEN
                LET dropdown_y == fl + 1
                    list_h == Max(1, ih - dropdown_y - 1)
                    total  == Len(st.selected)
                    fscroll == ensure_visible(st.from_list_idx,
                                              clamp_scroll(st.from_list_scroll, list_h, total),
                                              list_h, total)
                    last   == Min(total, fscroll + list_h)
                    labels == SubSeq(st.selected, fscroll + 1, last)
                    box_x  == ox + Max(0, from_value_start - 1)
                    box_y  == oy + dropdown_y
                    box_w  == Min(MaxLen(labels) + 4, w - box_x)
                    box_h  == Min((last - fscroll) + 2, h - box_y)
                IN  [s1 EXCEPT !.from_list_scroll = fscroll,
                               !.regions = IF box_w >= 2 /\ box_h >= 2
                                           THEN DropdownRegions(r8, st, fscroll, fscroll, last,
                                                                box_y, box_x, box_h, box_w)
                                           ELSE r8]
            ELSE [s1 EXCEPT !.regions = r8]

-----------------------------------------------------------------------------
(* Mouse handling on the main screen.  The button state is one of          *)
(* "click" (BUTTON1_CLICKED or BUTTON1_RELEASED), "press" (BUTTON1_PRESSED *)
(* alone), "wheel_up" (BUTTON4_PRESSED), "wheel_down" (BUTTON5_PRESSED)    *)
(* and "other".                                                            *)

\* a faulty variant of results_click whose End cells hand over the row's
\* start
results_click_swapped(st, mx, my) ==
    LET layout == st.results_layout
        \* list.index(x): 0-based place of the first x
        IndexOf(q, x) ==
            (CHOOSE i \in 1..Len(q) : q[i] = x /\ \A j \in 1..(i - 1) : q[j] # x) - 1
    IN  IF ~layout.has THEN Ignored(st)
        ELSE IF my < layout.row_start \/ my >= layout.row_start + layout.visible * layout.row_step
        THEN Ignored(st)
        ELSE IF layout.row_step > 1 /\ ((my - layout.row_start) % layout.row_step) # 0
        THEN Ignored(st)
        ELSE
        LET row_idx == layout.start_idx + ((my - layout.row_start) \div layout.row_step)
        IN  IF ~(0 <= row_idx /\ row_idx < Len(st.results)) THEN Ignored(st)
            ELSE
            LET row      == st.results[row_idx + 1]
                tz_name  == row[1]
                start_dt == row[2]
                end_dt   == row[3]
                zone_x   == layout.table_x + 1
                now_x    == zone_x + layout.zone_w + 1
                start_x  == now_x + layout.dt_w + 1
                end_x    == start_x + layout.dt_w + 1
                known    == tz_name \in SeqToSet(st.selected)
            IN  IF zone_x <= mx /\ mx < zone_x + layout.zone_w /\ known THEN
                    Done(compute_results([st EXCEPT !.from_idx = IndexOf(st.selected, tz_name),
                                                    !.focus_main = 1,
                                                    !.cursor_start = TIME_FIRST_DIGIT]))
                ELSE IF now_x <= mx /\ mx < now_x + layout.dt_w THEN
                    Done(compute_results(
                        [st EXCEPT !.from_idx = IF known THEN IndexOf(st.selected, tz_name)
                                                ELSE st.from_idx,
                                   !.start_text = Strftime(start_dt, st.env_ypad),
                                   !.end_text = Strftime(end_dt, st.env_ypad),
                                   !.focus_main = 1,
                                   !.cursor_start = TIME_FIRST_DIGIT,
                                   !.from_list_open = FALSE]))
                ELSE IF start_x <= mx /\ mx < start_x + layout.dt_w THEN
                    Done(compute_results(
                        [st EXCEPT !.start_text = Strftime(start_dt, st.env_ypad),
                                   !.focus_main = 1,
                                   !.cursor_start = TIME_FIRST_DIGIT]))
                ELSE IF end_x <= mx /\ mx < end_x + layout.dt_w THEN
                    Done(compute_results(
                        [st EXCEPT !.end_text = Strftime(start_dt, st.env_ypad),
                                   !.focus_main = 2,
                                   !.cursor_end = TIME_FIRST_DIGIT]))
                ELSE Ignored(st)

\* the "Results click handling" part of handle_mouse_main: a click that hit
\* no region while the dropdown is closed
results_click(st, mx, my) ==
    LET layout == st.results_layout
        \* list.index(x): 0-based place of the first x
        IndexOf(q, x) ==
            (CHOOSE i \in 1..Len(q) : q[i] = x /\ \A j \in 1..(i - 1) : q[j] # x) - 1
    IN  IF ~layout.has THEN Ignored(st)
        ELSE IF my < layout.row_start \/ my >= layout.row_start + layout.visible * layout.row_step
        THEN Ignored(st)
        ELSE IF layout.row_step > 1 /\ ((my - layout.row_start) % layout.row_step) # 0
        THEN Ignored(st)
        ELSE
        LET row_idx == layout.start_idx + ((my - layout.row_start) \div layout.row_step)
        IN  IF ~(0 <= row_idx /\ row_idx < Len(st.results)) THEN Ignored(st)
            ELSE
            LET row      == st.results[row_idx + 1]
                tz_name  == row[1]
                start_dt == row[2]
                end_dt   == row[3]
                zone_x   == layout.table_x + 1
                now_x    == zone_x + layout.zone_w + 1
                start_x  == now_x + layout.dt_w + 1
                end_x    == start_x + layout.dt_w + 1
                known    == tz_name \in SeqToSet(st.selected)
            IN  IF zone_x <= mx /\ mx < zone_x + layout.zone_w /\ known THEN
                    Done(compute_results([st EXCEPT !.from_idx = IndexOf(st.selected, tz_name),
                                                    !.focus_main = 1,
                                                    !.cursor_start = TIME_FIRST_DIGIT]))
                ELSE IF now_x <= mx /\ mx < now_x + layout.dt_w THEN
                    Done(compute_results(
                        [st EXCEPT !.from_idx = IF known THEN IndexOf(st.selected, tz_name)
                                                ELSE st.from_idx,
                                   !.start_text = Strftime(start_dt, st.env_ypad),
                                   !.end_text = Strftime(end_dt, st.env_ypad),
                                   !.focus_main = 1,
                                   !.cursor_start = TIME_FIRST_DIGIT,
                                   !.from_list_open = FALSE]))
                ELSE IF start_x <= mx /\ mx < start_x + layout.dt_w THEN
                    Done(compute_results(
                        [st EXCEPT !.start_text = Strftime(start_dt, st.env_ypad),
                                   !.focus_main = 1,
                                   !.cursor_start = TIME_FIRST_DIGIT]))
                ELSE IF end_x <= mx /\ mx < end_x + layout.dt_w THEN
                    Done(compute_results(
                        [st EXCEPT !.end_text = Strftime(end_dt, st.env_ypad),
                                   !.focus_main = 2,
                                   !.cursor_end = TIME_FIRST_DIGIT]))
                ELSE Ignored(st)

\* the dispatch of a region hit in handle_mouse_main
main_region_action(st, hit, mx, now) ==
    LET n == Len(st.selected)
    IN  IF hit.action = "button_reset" THEN Done(compute_results(reset_inputs(st, now)))
        ELSE IF hit.action = "button_settings" THEN Done(open_settings(st))
        ELSE IF hit.action = "button_quit" THEN Ignored([st EXCEPT !.quit = TRUE])
        ELSE IF hit.action = "from_prev" /\ n > 0 THEN
            Done(compute_results([st EXCEPT !.from_idx = (st.from_idx - 1) % n]))
        ELSE IF hit.action = "from_next" /\ n > 0 THEN
            Done(compute_results([st EXCEPT !.from_idx = (st.from_idx + 1) % n]))
        ELSE IF hit.action = "from_toggle" /\ n > 0 THEN
            Done([st EXCEPT !.from_list_open = ~st.from_list_open,
                            !.from_list_idx = st.from_idx])
        ELSE IF hit.action = "from_select" /\ Len(hit.payload) = 1
                /\ 0 <= hit.payload[1] /\ hit.payload[1] < n THEN
            Done(compute_results([st EXCEPT !.from_idx = hit.payload[1],
                                            !.from_list_open = FALSE,
                                            !.focus_main = 1,
                                            !.cursor_start = TIME_FIRST_DIGIT]))
        ELSE IF hit.action = "focus_field" /\ Len(hit.payload) = 3 THEN
            IF hit.payload[1] = "start"
            THEN Done([st EXCEPT !.focus_main = 1,
                                 !.cursor_start = cursor_from_click(mx - hit.payload[2])])
            ELSE Done([st EXCEPT !.focus_main = 2,
                                 !.cursor_end = cursor_from_click(mx - hit.payload[2])])
        ELSE Ignored(st)

\* handle_mouse_main(state, mx, my, bstate) at the clock reading now
handle_mouse_main(st, mx, my, bstate, now) ==
    IF st.help_open THEN
        IF bstate \in {"click", "press"} THEN Done([st EXCEPT !.help_open = FALSE])
        ELSE Ignored(st)
    ELSE IF bstate = "wheel_up" THEN Done([st EXCEPT !.results_scroll = st.results_scroll - 3])
    ELSE IF bstate = "wheel_down" THEN Done([st EXCEPT !.results_scroll = st.results_scroll + 3])
    ELSE IF bstate # "click" THEN Ignored(st)
    ELSE LET hit == region_hit(st.regions, mx, my)
         IN  IF ~hit.hit THEN
                 IF st.from_list_open THEN Done([st EXCEPT !.from_list_open = FALSE])
                 ELSE results_click(st, mx, my)
             ELSE main_region_action(st, hit, mx, now)

-----------------------------------------------------------------------------
(* The settings screen's frame: what render_settings leaves in the state.  *)

\* the seven buttons of the settings screen
SettingsButtons(regions, st, oy, ox, btn_y) ==
    LET BoxLabel(s) == "ox:" \o (IF s.settings_box_mode = "unicode" THEN "UNICODE" ELSE "ASCII")
        ColorsLabel(s) == IF s.settings_colors_enabled THEN "olors:On" ELSE "olors:Off"
        ThemeLabel(s) == "heme:" \o s.settings_theme
        r1 == AddButton(regions, oy, ox, btn_y, 0, "dd", "settings_add")
        x1 == AfterButton(0, "dd")
        r2 == AddButton(r1, oy, ox, btn_y, x1, "elete", "settings_remove")
        x2 == AfterButton(x1, "elete")
        r3 == AddButton(r2, oy, ox, btn_y, x2, "ave", "settings_save")
        x3 == AfterButton(x2, "ave")
        r4 == AddButton(r3, oy, ox, btn_y, x3, "ancel", "settings_cancel")
        x4 == AfterButton(x3, "ancel")
        r5 == AddButton(r4, oy, ox, btn_y, x4, BoxLabel(st), "settings_box")
        x5 == AfterButton(x4, BoxLabel(st))
        r6 == AddButton(r5, oy, ox, btn_y, x5, ColorsLabel(st), "settings_colors")
        x6 == AfterButton(x5, ColorsLabel(st))
    IN  AddButton(r6, oy, ox, btn_y, x6, ThemeLabel(st), "settings_theme")

\* the clamp of all_idx in render_settings over the rows of the left pane
ClampAllIdx(st, total, rows) ==
    IF total = 0 THEN 0
    ELSE LET i == Max(0, Min(st.all_idx, total - 1))
         IN  IF st.view_mode # 0 /\ rows[i + 1].kind # "tz"
             THEN next_selectable_index(rows, i, 1)
             ELSE i

render_settings(st, now) ==
    LET h  == st.env_size[1]
        w  == st.env_size[2]
        s0 == [st EXCEPT !.regions = << >>]
    IN  IF w < 80 \/ h < 20 THEN s0
        ELSE
        LET ox == 1
            oy == 1
            iw == w - ox * 2
            ih == h - oy * 2
            alias_line == "Country view includes aliases inferred from zoneinfo links; "
                            \o "unmapped zones go to Other/Unmapped (ZZ)."
            \* the lines the two header texts take at inner width iw (at
            \* least 78 here): the first always fits, alias_line wraps once
            \* unless it fits
            filter_y == 1 + (IF Len(alias_line) <= iw THEN 1 ELSE 2)
            fx == Len("Filter: ")
            r1 == add_region(<< >>, oy + filter_y, ox + fx, oy + filter_y,
                             ox + fx + Len(st.filter_text) + 1, "settings_filter", << >>)
            list_y  == filter_y + 2
            list_h  == Max(3, ih - list_y - 4)
            gap     == 3
            left_w  == (iw - gap) \div 2
            right_w == iw - gap - left_w
            left_x  == 0
            right_x == left_w + gap
            al      == IF st.view_mode = 0 THEN get_all_list(st, now)
                       ELSE [raise |-> FALSE, list |-> << >>]
            rows    == IF st.view_mode = 0 THEN << >>
                       ELSE build_country_rows(st.country_map, st.filter_text)
            total   == IF st.view_mode = 0 THEN Len(al.list) ELSE Len(rows)
            nsel    == Len(st.settings_selected)
            all_idx == ClampAllIdx(st, total, rows)
            sel_idx == IF nsel > 0 THEN Max(0, Min(st.sel_idx, nsel - 1)) ELSE 0
            all_scroll == IF st.all_scroll_manual THEN clamp_scroll(st.all_scroll, list_h, total)
                          ELSE ensure_visible(all_idx, st.all_scroll, list_h, total)
            sel_scroll == IF st.sel_scroll_manual THEN clamp_scroll(st.sel_scroll, list_h, nsel)
                          ELSE ensure_visible(sel_idx, st.sel_scroll, list_h, nsel)
        IN  IF al.raise THEN Raise(s0, "OverflowError")
            ELSE [s0 EXCEPT !.regions = SettingsButtons(r1, st, oy, ox, ih - 3),
                            !.all_idx = all_idx,
                            !.sel_idx = sel_idx,
                            !.all_scroll = all_scroll,
                            !.sel_scroll = sel_scroll,
                            !.settings_boxes =
                                [has |-> TRUE,
                                 all |-> <<oy + list_y, ox + left_x, list_h, left_w>>,
                                 selected |-> <<oy + list_y, ox + right_x, list_h, right_w>>,
                                 filter |-> <<oy + filter_y, ox + fx, 1, Max(1, iw - fx)>>]]

-----------------------------------------------------------------------------
(* Mouse handling on the settings screen.                                  *)

\* box[0] <= my < box[0] + box[2] and box[1] <= mx < box[1] + box[3]
InBox(box, mx, my) ==
    box[1] <= my /\ my < box[1] + box[3] /\ box[2] <= mx /\ mx < box[2] + box[4]

\* the wheel branches of handle_mouse_settings, delta -1 (up) or 1 (down)
settings_wheel(st, mx, my, delta, now) ==
    LET boxes == st.settings_boxes
        \* the left pane scrolled over a list of length total
        scrolled(s1, total) ==
            Done([s1 EXCEPT !.all_scroll =
                     clamp_scroll(st.all_scroll + delta, boxes.all[3], total)])
        flat(s1, al) ==
            IF al.raise THEN Done(Raise(s1, "OverflowError")) ELSE scrolled(s1, Len(al.list))
        left(s1) ==
            IF st.view_mode = 0 THEN flat(s1, get_all_list(s1, now))
            ELSE scrolled(s1, Len(build_country_rows(st.country_map, st.filter_text)))
    IN  IF boxes.has /\ InBox(boxes.all, mx, my) THEN
            left([st EXCEPT !.settings_focus = 1, !.all_scroll_manual = TRUE])
        ELSE IF boxes.has /\ InBox(boxes.selected, mx, my) THEN
            Done([st EXCEPT !.settings_focus = 2, !.sel_scroll_manual = TRUE,
                            !.sel_scroll = clamp_scroll(st.sel_scroll + delta, boxes.selected[3],
                                                        Len(st.settings_selected))])
        ELSE Ignored(st)

\* "Click inside panes": a click that no region's action consumed
settings_pane_click(st, mx, my, now) ==
    LET boxes == st.settings_boxes
    IN  IF boxes.has /\ InBox(boxes.all, mx, my) THEN
            LET s1  == [st EXCEPT !.settings_focus = 1]
                idx == st.all_scroll + (my - boxes.all[1])
            IN  IF st.view_mode = 0 THEN
                    LET al == get_all_list(s1, now)
                    IN  IF al.raise THEN Done(Raise(s1, "OverflowError"))
                        ELSE IF 0 <= idx /\ idx < Len(al.list)
                        THEN Done([s1 EXCEPT !.all_idx = idx, !.all_scroll_manual = FALSE])
                        ELSE Done(s1)
                ELSE
                    LET rows == build_country_rows(st.country_map, st.filter_text)
                    IN  IF 0 <= idx /\ idx < Len(rows)
                        THEN Done([s1 EXCEPT !.all_idx = IF rows[idx + 1].kind = "header"
                                                         THEN next_selectable_index(rows, idx, 1)
                                                         ELSE idx,
                                             !.all_scroll_manual = FALSE])
                        ELSE Done(s1)
        ELSE IF boxes.has /\ InBox(boxes.selected, mx, my) THEN
            LET idx == st.sel_scroll + (my - boxes.selected[1])
            IN  IF 0 <= idx /\ idx < Len(st.settings_selected)
                THEN Done([st EXCEPT !.settings_focus = 2, !.sel_idx = idx,
                                     !.sel_scroll_manual = FALSE])
                ELSE Done([st EXCEPT !.settings_focus = 2])
        ELSE IF boxes.has /\ boxes.filter[1] <= my /\ my < boxes.filter[1] + boxes.filter[3] THEN
            Done([st EXCEPT !.settings_focus = 0, !.filter_cursor = Len(st.filter_text),
                            !.all_scroll_manual = FALSE])
        ELSE Ignored(st)

\* handle_mouse_settings(state, mx, my, bstate) at the clock reading now
handle_mouse_settings(st, mx, my, bstate, now) ==
    IF st.help_open THEN
        IF bstate \in {"click", "press"} THEN Done([st EXCEPT !.help_open = FALSE])
        ELSE Ignored(st)
    ELSE IF bstate = "wheel_up" THEN settings_wheel(st, mx, my, -1, now)
    ELSE IF bstate = "wheel_down" THEN settings_wheel(st, mx, my, 1, now)
    ELSE IF bstate # "click" THEN Ignored(st)
    ELSE LET hit == region_hit(st.regions, mx, my)
             act == IF hit.hit THEN hit.action ELSE ""
         IN  IF act = "settings_add" THEN Done(settings_add(st, now))
             ELSE IF act = "settings_remove" THEN Done(settings_remove(st))
             ELSE IF act = "settings_save" THEN save_settings(st)
             ELSE IF act = "settings_cancel" THEN Done(cancel_settings(st))
             ELSE IF act = "settings_box" THEN Done(toggle_box(st))
             ELSE IF act = "settings_colors" THEN Done(toggle_colors(st))
             ELSE IF act = "settings_theme" THEN Done(toggle_theme(st))
             ELSE IF act = "settings_filter" THEN
                 Done([st EXCEPT !.settings_focus = 0, !.filter_cursor = Len(st.filter_text),
                                 !.all_scroll_manual = FALSE])
             ELSE settings_pane_click(st, mx, my, now)

-----------------------------------------------------------------------------
(* The country tables (iso3166.tab, zone1970.tab) and the links of the     *)
(* zoneinfo directory, as load_country_timezones reads them.               *)

\* the tzdata of the sample host: iso names the countries, tab holds the
\* rows of zone1970.tab (country codes and canonical zone), files the
\* entries of the zoneinfo directory with the file each resolves to and
\* whether the entry itself is a symbolic link
SampleTzdata ==
    [iso_ok |-> TRUE,
     iso |-> {[cc |-> "IQ", name |-> "Iraq"], [cc |-> "SE", name |-> "Sweden"],
              [cc |-> "US", name |-> "United States"]},
     zone_file |-> "ok",
     tab |-> << [ccs |-> <<"IQ">>, tz |-> "Asia/Baghdad"],
                [ccs |-> <<"SE">>, tz |-> "Europe/Stockholm"],
                [ccs |-> <<"US">>, tz |-> "America/Los_Angeles"] >>,
     dir |-> TRUE,
     files |-> {[tz |-> z, real |-> z, link |-> FALSE] :
                    z \in {"UTC", "America/Los_Angeles", "Asia/Baghdad",
                           "Europe/Stockholm", "Africa/Abidjan"}}
                 \cup {[tz |-> "US/Pacific", real |-> "America/Los_Angeles", link |-> TRUE]}]

\* a faulty variant of load_country_timezones that infers no aliases: every
\* zone the table does not list goes to the fallback group
load_country_timezones_no_alias(all_zones, tzdata) ==
    LET rows      == SelectSeq(tzdata.tab, LAMBDA r : r.tz \in all_zones)
        canonical == {rows[i].tz : i \in 1..Len(rows)}
        codes     == UNION {SeqToSet(rows[i].ccs) : i \in 1..Len(rows)}
        plain(zs) == SortSeq(SetToSeq({[tz_id |-> z, is_alias |-> FALSE, alias_target |-> ""] :
                                          z \in zs}),
                             LAMBDA a, b : StrLess(a.tz_id, b.tz_id))
        IsoName(cc) == IF \E r \in tzdata.iso : r.cc = cc
                       THEN (CHOOSE r \in tzdata.iso : r.cc = cc).name ELSE cc
        group(cc) == [name |-> IsoName(cc), cc |-> cc,
                      entries |-> plain({rows[i].tz : i \in {k \in 1..Len(rows) :
                                                               cc \in SeqToSet(rows[k].ccs)}})]
    IN  IF ~tzdata.iso_ok \/ tzdata.zone_file # "ok" \/ canonical = {}
        THEN [map |-> {}, error |-> "Failed to read the tables"]
        ELSE [map |-> {group(cc) : cc \in codes}
                        \cup (IF all_zones \ canonical # {}
                              THEN {[name |-> "Other/Unmapped", cc |-> "ZZ",
                                     entries |-> plain(all_zones \ canonical)]}
                              ELSE {}),
              error |-> ""]

\* load_country_timezones(all_zones) over the tzdata it reads.  The result
\* is the mapping (a set of groups, one per dict key) and the error text
\* ("" for None)
load_country_timezones(all_zones, tzdata) ==
    LET IsoName(cc) == IF \E r \in tzdata.iso : r.cc = cc
                       THEN (CHOOSE r \in tzdata.iso : r.cc = cc).name ELSE cc
        rows      == SelectSeq(tzdata.tab, LAMBDA r : r.tz \in all_zones)
        canonical == {rows[i].tz : i \in 1..Len(rows)}
        places    == UNION {{<<i, j>> : j \in 1..Len(rows[i].ccs)} : i \in 1..Len(rows)}
        at(cc)    == {q \in places : rows[q[1]].ccs[q[2]] = cc}
        codes     == {rows[q[1]].ccs[q[2]] : q \in places}
        \* the position of a key in the insertion order of the mapping dict
        first(cc) == CHOOSE q \in at(cc) :
                         \A r \in at(cc) : q[1] < r[1] \/ (q[1] = r[1] /\ q[2] <= r[2])
        keyBefore(a, b) == first(a)[1] < first(b)[1]
                             \/ (first(a)[1] = first(b)[1] /\ first(a)[2] < first(b)[2])
        members(cc) == {rows[q[1]].tz : q \in at(cc)}
        unmapped  == all_zones \ canonical
        \* p.exists() and p.resolve()
        exists(z) == tzdata.dir /\ \E f \in tzdata.files : f.tz = z
        file(z)   == CHOOSE f \in tzdata.files : f.tz = z
        \* the realpath index: the canonical zones resolving to a file, in
        \* the order the loops visit them; a regular file beats a link and
        \* the first visited wins a tie
        cands(real) == {c \in {[cc |-> cc, tz |-> z] : cc \in codes, z \in canonical} :
                            /\ c.tz \in members(c.cc)
                            /\ exists(c.tz) /\ file(c.tz).real = real}
        score(c)  == IF file(c.tz).link THEN 0 ELSE 1
        before(c, d) == keyBefore(c.cc, d.cc) \/ (c.cc = d.cc /\ StrLess(c.tz, d.tz))
        winner(real) == CHOOSE c \in cands(real) :
                            \A d \in cands(real) :
                                d = c \/ score(d) < score(c)
                                      \/ (score(d) = score(c) /\ before(c, d))
        aliased   == {z \in unmapped : exists(z) /\ cands(file(z).real) # {}}
        entry(z)  == IF z \in canonical
                     THEN [tz_id |-> z, is_alias |-> FALSE, alias_target |-> ""]
                     ELSE [tz_id |-> z, is_alias |-> TRUE,
                           alias_target |-> winner(file(z).real).tz]
        entryLess(a, b) == StrLess(a.tz_id, b.tz_id)
        group(cc) == [name |-> IsoName(cc), cc |-> cc,
                      entries |-> SortSeq(SetToSeq(
                          {entry(z) : z \in members(cc)
                                         \cup {a \in aliased : winner(file(a).real).cc = cc}}),
                          entryLess)]
        leftover  == unmapped \ aliased
        other     == [name |-> "Other/Unmapped", cc |-> "ZZ",
                      entries |-> SortSeq(SetToSeq({[tz_id |-> z, is_alias |-> FALSE,
                                                     alias_target |-> ""] : z \in leftover}),
                                          entryLess)]
    IN  IF ~tzdata.iso_ok THEN [map |-> {}, error |-> "Failed to read iso3166.tab"]
        ELSE IF tzdata.zone_file = "missing"
        THEN [map |-> {}, error |-> "tzdata zone file not found"]
        ELSE IF tzdata.zone_file = "unreadable"
        THEN [map |-> {}, error |-> "Failed to read zone1970.tab"]
        ELSE IF canonical = {}
        THEN [map |-> {}, error |-> "No country/time zone mappings found"]
        ELSE [map |-> {group(cc) : cc \in codes}
                        \cup (IF leftover # {} THEN {other} ELSE {}),
              error |-> ""]

-----------------------------------------------------------------------------
(* Start-up: main() up to the event loop.  The environment env is the zone *)
(* database, the config file and whether it can be written, the tzdata     *)
(* tables, what the terminal can do, its size, the C library's year        *)
(* padding, the clock and the command line.                                *)

init_color_support(st, has_colors) == [st EXCEPT !.colors_supported = has_colors]

main(env) ==
    LET cfg     == load_config(env.zones, env.cfg)
        country == load_country_timezones(env.zones, env.tables)
        state0  ==
            [selected |-> cfg.selected,
             all_zones |-> SortSeq(SetToSeq(env.zones), StrLess),
             from_idx |-> 0,
             start_text |-> "",
             end_text |-> "",
             cursor_start |-> TIME_FIRST_DIGIT,
             cursor_end |-> TIME_FIRST_DIGIT,
             focus_main |-> 0,
             from_list_open |-> FALSE,
             from_list_idx |-> 0,
             from_list_scroll |-> 0,
             results_scroll |-> 0,
             results_layout |-> [has |-> FALSE, row_start |-> 0, row_step |-> 0,
                                 start_idx |-> 0, visible |-> 0, zone_w |-> 0,
                                 dt_w |-> 0, table_x |-> 0],
             error |-> "",
             results |-> << >>,
             duration_str |-> "",
             total_minutes |-> 0,
             quit |-> FALSE,
             help_open |-> FALSE,
             regions |-> << >>,
             mouse_enabled |-> FALSE,
             settings_open |-> FALSE,
             settings_selected |-> << >>,
             settings_original |-> << >>,
             settings_focus |-> 1,
             filter_text |-> "",
             filter_cursor |-> 0,
             all_idx |-> 0,
             all_scroll |-> 0,
             all_scroll_manual |-> FALSE,
             sel_idx |-> 0,
             sel_scroll |-> 0,
             sel_scroll_manual |-> FALSE,
             sort_mode |-> 0,
             view_mode |-> 0,
             settings_msg |-> "",
             settings_boxes |-> [has |-> FALSE, all |-> <<0, 0, 0, 0>>,
                                 selected |-> <<0, 0, 0, 0>>, filter |-> <<0, 0, 0, 0>>],
             country_map |-> country.map,
             country_error |-> country.error,
             colors_supported |-> FALSE,
             colors_enabled |-> FALSE,
             colors_warning |-> "",
             theme_name |-> cfg.theme_name,
             box_mode |-> "ascii",
             box_warning |-> "",
             unicode_supported |-> env.unicode,
             settings_box_mode |-> "ascii",
             settings_colors_enabled |-> FALSE,
             settings_theme |-> cfg.theme_name,
             \* set by open_settings before they are read
             settings_original_box_mode |-> "ascii",
             settings_original_colors |-> FALSE,
             settings_original_theme |-> cfg.theme_name,
             \* set by render_main before it is read
             last_size |-> <<0, 0>>,
             \* the world around the dict
             exc |-> "",
             disk_config |-> env.cfg,
             env_mouse |-> env.mouse,
             env_ypad |-> env.ypad,
             env_writable |-> env.writable,
             env_args |-> env.args,
             env_size |-> env.size,
             env_now |-> env.now]
        s1 == init_color_support(state0, env.colors)
        colors_pref == IF env.args.no_color THEN "false" ELSE cfg.colors_enabled
        s2 == [s1 EXCEPT !.colors_enabled = IF colors_pref = "unset" THEN s1.colors_supported
                                            ELSE colors_pref = "true"]
        box_mode == IF env.args.ascii THEN "ascii"
                    ELSE IF env.args.unicode THEN "unicode"
                    ELSE cfg.box_mode
        s3 == apply_color_settings(s2, s2.colors_enabled, cfg.theme_name)
        s4 == apply_box_mode(s3, box_mode)
        s5 == set_mouse_enabled(s4, ~env.args.no_mouse)
    IN  compute_results(reset_inputs(s5, env.now))

-----------------------------------------------------------------------------
(* The session: the event loop of main().                                  *)

VARIABLES state, events

vars == <<state, events>>

\* the number of loop iterations explored
MaxEvents == 3

ZonesFull == {"UTC", "America/Los_Angeles", "Asia/Baghdad", "Europe/Stockholm"}

\* zone databases: the sample one, one without any default zone or UTC,
\* and an empty one (no tzdata installed)
ZoneDatabases == {ZonesFull, {"Africa/Abidjan"}, {}}

NoConfig ==
    [present |-> FALSE, selected |-> << >>, box_drawing |-> "", colors_enabled |-> "unset",
     theme |-> ""]

\* config files: none, one written by the program, one listing a zone
\* twice, and one with unknown entries
ConfigFiles ==
    { NoConfig,
      [present |-> TRUE, selected |-> <<"UTC", "America/Los_Angeles">>,
       box_drawing |-> "unicode", colors_enabled |-> "true", theme |-> "default"],
      [present |-> TRUE, selected |-> <<"UTC", "UTC">>,
       box_drawing |-> "ascii", colors_enabled |-> "false", theme |-> "default"],
      [present |-> TRUE, selected |-> <<"Mars/Base", "Europe/Stockholm">>,
       box_drawing |-> "fancy", colors_enabled |-> "unset", theme |-> "nope"] }

\* terminal sizes <<h, w>>: roomy, too small for the main screen only, and
\* too small for both screens
TerminalSizes == {<<24, 90>>, <<20, 80>>, <<10, 40>>}

\* clock readings (UTC)
Clock == <<Dt(2024, 1, 1, 0, 0), Dt(2024, 3, 10, 9, 30)>>

NoArgs == [no_mouse |-> FALSE, no_color |-> FALSE, ascii |-> FALSE, unicode |-> FALSE]

CommandLines ==
    { NoArgs, [NoArgs EXCEPT !.no_mouse = TRUE], [NoArgs EXCEPT !.no_color = TRUE],
      [NoArgs EXCEPT !.ascii = TRUE], [NoArgs EXCEPT !.unicode = TRUE] }

BaseEnv ==
    [zones |-> ZonesFull,
     cfg |-> [present |-> TRUE, selected |-> <<"UTC", "America/Los_Angeles">>,
              box_drawing |-> "unicode", colors_enabled |-> "true", theme |-> "default"],
     tables |-> SampleTzdata, colors |-> TRUE, unicode |-> TRUE, mouse |-> TRUE, ypad |-> TRUE,
     size |-> <<24, 90>>, now |-> Clock[1], args |-> NoArgs, writable |-> TRUE]

\* the environments a session starts in: the base one and those that
\* differ from it in one respect
Environments ==
    {[BaseEnv EXCEPT !.zones = z] : z \in ZoneDatabases}
      \cup {[BaseEnv EXCEPT !.cfg = c] : c \in ConfigFiles}
      \cup {[BaseEnv EXCEPT !.zones = z, !.cfg = NoConfig] : z \in ZoneDatabases}
      \cup {[BaseEnv EXCEPT !.size = sz] : sz \in TerminalSizes}
      \cup {[BaseEnv EXCEPT !.args = a] : a \in CommandLines}
      \cup {[BaseEnv EXCEPT !.tables = [SampleTzdata EXCEPT !.zone_file = "missing"]],
            [BaseEnv EXCEPT !.colors = FALSE],
            [BaseEnv EXCEPT !.unicode = FALSE], [BaseEnv EXCEPT !.mouse = FALSE],
            [BaseEnv EXCEPT !.ypad = FALSE], [BaseEnv EXCEPT !.now = Clock[2]],
            [BaseEnv EXCEPT !.writable = FALSE]}

Init ==
    /\ state \in {main(env) : env \in Environments}
    /\ events = 0

\* the keys pressed
KeySamples ==
    {"0", "1", "a", "b", "c", "d", "o", "s", "v", "q", "r", "m", "?", "x", " ",
     "TAB", "BTAB", "ENTER", "ESC", "BACKSPACE", "DC", "UP", "DOWN", "LEFT", "RIGHT",
     "HOME", "END", "NPAGE", "PPAGE"}

\* the pointer events <<mx, my, bstate>>
MouseSamples ==
    {<<x, y, "click">> : x \in {3, 10, 21, 26, 37, 50, 60, 75}, y \in {4, 7, 9, 14, 16, 20}}
      \cup {<<x, 7, b>> : x \in {10, 60}, b \in {"wheel_up", "wheel_down"}}
      \cup {<<10, 7, "press">>, <<10, 7, "other">>}

Running == ~state.quit /\ state.exc = "" /\ events < MaxEvents

\* the tail of a loop iteration: the frame is drawn when the handler
\* reported a change or the second changed since the last frame; nothing
\* more happens once an exception left the handler
Frame(res, tick) ==
    IF res.st.exc # "" THEN res.st
    ELSE IF res.changed \/ tick
    THEN IF res.st.settings_open THEN render_settings(res.st, res.st.env_now)
         ELSE render_main(res.st)
    ELSE res.st

\* the key branch of the loop
OnKey(key, st) ==
    IF st.settings_open THEN handle_settings_input(key, st, st.env_now)
    ELSE handle_main_input(key, st, st.env_now)

\* the KEY_MOUSE branch of the loop, taken while the mouse is enabled
OnMouse(m, st) ==
    IF st.settings_open THEN handle_mouse_settings(st, m[1], m[2], m[3], st.env_now)
    ELSE handle_mouse_main(st, m[1], m[2], m[3], st.env_now)

\* one loop iteration from the handler's result on; whether the second
\* has changed since the last frame only matters when the handler
\* reported no change
Iteration(res) ==
    /\ \E tick \in (IF res.changed THEN {TRUE} ELSE BOOLEAN) : state' = Frame(res, tick)
    /\ events' = events + 1

\* getch() returned a key; with the mouse off KEY_MOUSE is handed to the
\* key handlers like any other key
KeyEvent ==
    /\ Running
    /\ \E key \in KeySamples \cup (IF state.mouse_enabled THEN {} ELSE {"MOUSE"}) :
           Iteration(OnKey(key, state))

\* getch() returned KEY_MOUSE while the mouse is enabled
MouseEvent ==
    /\ Running
    /\ state.mouse_enabled
    /\ \E m \in MouseSamples : Iteration(OnMouse(m, state))

\* getch() timed out (-1); the clock may have moved on
Timeout ==
    /\ Running
    /\ \E now \in {Clock[i] : i \in 1..Len(Clock)} :
           /\ ~DtLess(now, state.env_now)
           /\ Iteration(OnKey("NONE", [state EXCEPT !.env_now = now]))

\* the terminal was resized: KEY_RESIZE arrives and the size has changed
Resize ==
    /\ Running
    /\ \E size \in TerminalSizes :
           Iteration(OnKey("RESIZE", [state EXCEPT !.env_size = size]))

Next == KeyEvent \/ MouseEvent \/ Timeout \/ Resize

Spec == Init /\ [][Next]_vars


-----------------------------------------------------------------------------
(* The conversion engine on its own: compute_results applied once to an    *)
(* input the main screen can hold.  A text is any filling of the digit     *)
(* template; the samples are calendar dates around the 2024 transitions,   *)
(* the first and the last representable days, and texts strptime rejects.  *)
(* A start and an end are taken from the same period (TLC's integers hold  *)
(* minute differences of about 4000 years).  The empty selection, which    *)
(* main() leaves with both texts empty, is an input too.                   *)

EngineZoneLists ==
    { <<"UTC", "America/Los_Angeles">>, <<"America/Los_Angeles", "UTC">>,
      <<"UTC", "Asia/Baghdad">>, <<"America/Los_Angeles">>,
      <<"Asia/Baghdad", "Europe/Stockholm", "America/Los_Angeles", "UTC">> }

TextsRecent ==
    { "2023-12-31 23:30", "2024-01-01 00:00", "2024-01-01 01:00", "2024-01-03 02:00",
      "2024-03-10 01:00", "2024-03-10 02:30", "2024-03-10 03:00", "2024-03-10 04:00",
      "2024-11-03 00:00", "2024-11-03 01:30", "2024-11-03 03:00" }

TextsFirstDays == {"0001-01-01 00:00", "0001-01-01 01:00"}

TextsLastDays == {"9999-12-31 23:00", "9999-12-31 23:59"}

TextsRejected == {"0000-00-00 00:00", "2024-02-30 00:00", "2024-13-01 00:00", "2024-01-01 24:00"}

EngineInput(selected, from_idx, start_text, end_text) ==
    [selected |-> selected, from_idx |-> from_idx,
     start_text |-> start_text, end_text |-> end_text,
     error |-> "", results |-> << >>, duration_str |-> "", total_minutes |-> 0, exc |-> ""]

EngineInputs ==
    LET TextPairs == UNION {(p \cup TextsRejected) \X (p \cup TextsRejected) :
                               p \in {TextsRecent, TextsFirstDays, TextsLastDays}}
    IN  {EngineInput(sel, i, tp[1], tp[2]) :
            sel \in EngineZoneLists, i \in 0..3, tp \in TextPairs}

EngineInit ==
    /\ state \in {in \in EngineInputs : in.from_idx < Len(in.selected)}
                   \cup {EngineInput(<< >>, 0, "", "")}
    /\ events = 0

Compute ==
    /\ events = 0
    /\ state' = compute_results(state)
    /\ events' = 1

EngineNext == Compute

SpecEngine == EngineInit /\ [][EngineNext]_vars

-----------------------------------------------------------------------------
(* The country tables on their own: load_country_timezones applied to a    *)
(* zone database and a tzdata directory, then build_country_rows applied   *)
(* to the mapping with a filter text.                                      *)

\* The directory holds Europe/Zurich (listed for three countries) and its
\* link Europe/Busingen, Europe/Berlin with the links Europe/Oslo (itself
\* listed, for Norway) and Arctic/Longyearbyen, Africa/Lusaka, and UTC with
\* its link Zulu, which no table lists.  The zone database is any subset of
\* these ids; the directory may lack the Zurich file (the zone is then
\* known from another tzdata source and its link dangles), the Oslo link
\* may be a regular file of its own, the iso names may be absent, and
\* either table may be missing or unreadable.
CountryInit ==
    LET ids  == {"Europe/Zurich", "Europe/Busingen", "Europe/Berlin", "Europe/Oslo",
                 "Arctic/Longyearbyen", "Africa/Lusaka", "UTC", "Zulu"}
        host == [iso_ok |-> TRUE,
                 iso |-> {[cc |-> "CH", name |-> "Switzerland"], [cc |-> "DE", name |-> "Germany"],
                          [cc |-> "LI", name |-> "Liechtenstein"], [cc |-> "NO", name |-> "Norway"],
                          [cc |-> "ZM", name |-> "Zambia"]},
                 zone_file |-> "ok",
                 tab |-> << [ccs |-> <<"NO">>, tz |-> "Europe/Oslo"],
                            [ccs |-> <<"CH", "DE", "LI">>, tz |-> "Europe/Zurich"],
                            [ccs |-> <<"DE">>, tz |-> "Europe/Berlin"],
                            [ccs |-> <<"ZM">>, tz |-> "Africa/Lusaka"] >>,
                 dir |-> TRUE,
                 files |-> {[tz |-> z, real |-> z, link |-> FALSE] :
                                z \in {"Europe/Zurich", "Europe/Berlin", "Africa/Lusaka", "UTC"}}
                             \cup {[tz |-> "Europe/Busingen", real |-> "Europe/Zurich", link |-> TRUE],
                                   [tz |-> "Europe/Oslo", real |-> "Europe/Berlin", link |-> TRUE],
                                   [tz |-> "Arctic/Longyearbyen", real |-> "Europe/Berlin",
                                    link |-> TRUE],
                                   [tz |-> "Zulu", real |-> "UTC", link |-> TRUE]}]
        oslo == {f \in host.files : f.tz # "Europe/Oslo"}
                  \cup {[tz |-> "Europe/Oslo", real |-> "Europe/Oslo", link |-> FALSE]}
        hosts == {host,
                  [host EXCEPT !.files = {f \in host.files : f.real # "Europe/Zurich"}],
                  [host EXCEPT !.files = oslo],
                  [host EXCEPT !.iso = {}],
                  [host EXCEPT !.iso_ok = FALSE],
                  [host EXCEPT !.zone_file = "missing"],
                  [host EXCEPT !.zone_file = "unreadable"]}
    IN  /\ state \in {[phase |-> "start", zones |-> z, tzdata |-> h, map |-> {}, error |-> "",
                       filter |-> "", rows |-> << >>] : z \in SUBSET ids, h \in hosts}
        /\ events = 0

\* mapping, error = load_country_timezones(all_zones)
LoadTables ==
    /\ state.phase = "start"
    /\ LET res == load_country_timezones(state.zones, state.tzdata)
       IN  state' = [state EXCEPT !.phase = "loaded", !.map = res.map, !.error = res.error]
    /\ events' = events + 1

\* rows = build_country_rows(mapping, filter_text) for a filter text typed
\* into the filter field
BuildRows ==
    /\ state.phase = "loaded"
    /\ \E f \in {"", "bia", " SE ", "zur", "De", "berlin", "zz", "q"} :
           state' = [state EXCEPT !.phase = "rows", !.filter = f,
                                  !.rows = build_country_rows(state.map, f)]
    /\ events' = events + 1

CountryNext == LoadTables \/ BuildRows

SpecCountry == CountryInit /\ [][CountryNext]_vars

-----------------------------------------------------------------------------
(* Properties of the conversion engine (checked under SpecEngine).         *)

\* compute_results has run on the input
EngineDone == events = 1

StartParse == parse_dt(state.start_text)
EndParse == parse_dt(state.end_text)

\* a zone is selected and both texts parse
WellFormed == Len(state.selected) > 0 /\ StartParse.ok /\ EndParse.ok

\* the instants (UTC readings) the two texts resolve to in the from zone
StartInstant == ToUtc(Attach(StartParse.dt, FromZone(state)))
EndInstant == ToUtc(Attach(EndParse.dt, FromZone(state)))

\* results are empty and the duration is cleared
NoOutcome == state.results = << >> /\ state.duration_str = "" /\ state.total_minutes = 0

\* C1: compute_results never raises: for every non-empty selection and every
\* text pair it finishes with either a non-empty error and empty results or
\* an empty error and a result set.
C1_NeverRaises ==
    (EngineDone /\ Len(state.selected) > 0) =>
        /\ state.exc = ""
        /\ \/ state.error # "" /\ state.results = << >>
           \/ state.error = "" /\ state.results # << >>

\* C2: "End earlier than start." (with empty results) is reported exactly
\* when the end instant is earlier than the start instant, both resolved in
\* the from zone.
C2_EarlierJudgedOnInstants ==
    (EngineDone /\ WellFormed /\ state.exc = "") =>
        ((state.error = ERR_END_EARLIER /\ state.results = << >>)
            <=> DtLess(EndInstant, StartInstant))

\* C3: whenever no error is reported, total_minutes is the difference of the
\* end and start instants in whole minutes, and duration_str is HH:MM with
\* hours total_minutes div 60 (not wrapped) and minutes total_minutes mod 60.
C3_DurationIsInstantDifference ==
    (EngineDone /\ WellFormed /\ state.exc = "" /\ state.error = "") =>
        /\ state.total_minutes = DtDiffMinutes(EndInstant, StartInstant)
        /\ state.duration_str = Fmt02(state.total_minutes \div 60) \o ":"
                                  \o Fmt02(state.total_minutes % 60)

\* C4: for a well-formed pair with end >= start in the from zone there is
\* exactly one result per selected zone, in the order of the selection; for
\* end < start the error is "End earlier than start." with empty results.
C4_OneRowPerZone ==
    (EngineDone /\ WellFormed) =>
        IF DtLess(EndInstant, StartInstant)
        THEN state.error = ERR_END_EARLIER /\ state.results = << >>
        ELSE /\ Len(state.results) = Len(state.selected)
             /\ \A i \in 1..Len(state.selected) : state.results[i][1] = state.selected[i]

\* C5 as stated: if start_text does not parse the error is the Start one;
\* otherwise, if end_text does not parse, the End one; in both cases results
\* are empty and the duration is cleared.
C5_ParseErrors ==
    EngineDone =>
        /\ ~StartParse.ok => (state.error = ERR_BAD_START /\ NoOutcome)
        /\ (StartParse.ok /\ ~EndParse.ok) => (state.error = ERR_BAD_END /\ NoOutcome)

\* C5 amended: with at least one zone selected, if start_text does not parse
\* the error is the Start one; otherwise, if end_text does not parse, the End
\* one; in both cases results are empty and the duration is cleared.  (With
\* no zone selected the error is the "No selected zones" one, whatever the
\* texts.)
C5_ParseErrorsWhenSelected ==
    (EngineDone /\ Len(state.selected) > 0) =>
        /\ ~StartParse.ok => (state.error = ERR_BAD_START /\ NoOutcome)
        /\ (StartParse.ok /\ ~EndParse.ok) => (state.error = ERR_BAD_END /\ NoOutcome)

\* the all-zero template as start text, with a zone selected
C5_Witness ==
    /\ EngineDone
    /\ Len(state.selected) > 0
    /\ state.start_text = "0000-00-00 00:00"
    /\ ~EndParse.ok
    /\ state.error = ERR_BAD_START

\* C8: with zones [UTC, America/Los_Angeles], from zone UTC, start
\* 2024-01-01 00:00 and end 2024-01-01 01:00 the duration is 01:00 (60
\* minutes) and the America/Los_Angeles row shows 2023-12-31 16:00 and
\* 2023-12-31 17:00; in general each row's local time is the resolved instant
\* shifted by that zone's UTC offset at that instant.
C8_RowsAreShiftedInstants ==
    (EngineDone /\ WellFormed /\ state.exc = "" /\ state.error = "") =>
        /\ (/\ state.selected = <<"UTC", "America/Los_Angeles">>
            /\ state.from_idx = 0
            /\ state.start_text = "2024-01-01 00:00"
            /\ state.end_text = "2024-01-01 01:00")
              => /\ state.duration_str = "01:00"
                 /\ state.total_minutes = 60
                 /\ Strftime(state.results[2][2], TRUE) = "2023-12-31 16:00"
                 /\ Strftime(state.results[2][3], TRUE) = "2023-12-31 17:00"
        /\ \A i \in 1..Len(state.results) :
              /\ Naive(state.results[i][2])
                   = DtShift(StartInstant, UtcOffsetAtUtc(state.selected[i], StartInstant))
              /\ Naive(state.results[i][3])
                   = DtShift(EndInstant, UtcOffsetAtUtc(state.selected[i], EndInstant))

-----------------------------------------------------------------------------
(* Properties of the session (checked under Spec).                         *)

\* C6: in every reachable state error and results are mutually exclusive.
C6_ErrorExcludesResults == ~(state.error # "" /\ state.results # << >>)

\* an edit has made the end earlier than the start
C6_Witness ==
    /\ events > 0
    /\ state.error = ERR_END_EARLIER
    /\ state.results = << >>

\* C7: after every event results, error and duration are what
\* compute_results yields for the current selection, from zone and texts.
C7_DerivedFieldsFresh ==
    state.exc = "" =>
        LET c == compute_results(state)
        IN  /\ c.exc = ""
            /\ state.results = c.results
            /\ state.error = c.error
            /\ state.duration_str = c.duration_str
            /\ state.total_minutes = c.total_minutes

\* an event has moved the from zone and the table follows it
C7_Witness ==
    /\ events > 0
    /\ state.exc = ""
    /\ state.from_idx > 0
    /\ state.error = ""
    /\ Len(state.results) = Len(state.selected)
    /\ state.results[state.from_idx + 1][2].tz = FromZone(state)

C10_NoDuplicateZones ==
    LET NoDup(q) == \A i, j \in 1..Len(q) : q[i] = q[j] => i = j
    IN  NoDup(state.selected) /\ NoDup(state.settings_selected)

\* C11: a remove requested when the working list holds exactly one zone is
\* rejected with the "At least one zone must remain." message and leaves the
\* working list and sel_idx unchanged; so, in a session whose selection is
\* not empty, the working list of an open settings screen is never empty
\* and Save is not rejected for emptiness.
C11_LastZoneStays ==
    (state.settings_open /\ state.exc = "" /\ Len(state.selected) > 0) =>
        /\ Len(state.settings_selected) >= 1
        /\ LET saved == save_settings(state)
           IN  /\ saved.changed
               /\ ~saved.st.settings_open
               /\ saved.st.settings_msg # "Select at least one zone before saving."
        /\ Len(state.settings_selected) = 1 =>
               LET r == settings_remove(state)
               IN  /\ r.settings_selected = state.settings_selected
                   /\ r.sel_idx = state.sel_idx
                   /\ r.settings_msg = "At least one zone must remain."

\* a remove was requested on a working list of one zone and was rejected
C11_Witness ==
    /\ state.settings_open
    /\ Len(state.selected) > 0
    /\ Len(state.settings_selected) = 1
    /\ state.settings_msg = "At least one zone must remain."

\* C12: start_text and end_text are exactly template length (16 characters)
\* in every reachable state.
C12_TextsTemplateLength ==
    /\ Len(state.start_text) = INPUT_LEN
    /\ Len(state.end_text) = INPUT_LEN

\* C13: cursor_start and cursor_end are digit-slot positions of the template
\* (never 4, 7, 10 or 13, never outside 0..15) in every reachable state.
C13_CursorsOnDigitSlots ==
    /\ state.cursor_start \in (0..15) \ {4, 7, 10, 13}
    /\ state.cursor_end \in (0..15) \ {4, 7, 10, 13}

\* a key or a click has moved a cursor off the slot a focus change puts it on
C13_Witness ==
    /\ events > 0
    /\ state.exc = ""
    /\ state.focus_main \in {1, 2}
    /\ state.cursor_start \notin {11}
    /\ state.cursor_end # state.cursor_start

\* the main screen takes the keys: no settings screen, no help overlay, the
\* session goes on
MainActive ==
    ~state.settings_open /\ ~state.help_open /\ ~state.quit /\ state.exc = ""

\* the text and the cursor of the field that has the focus (Start or End)
FocusedText(s) == IF s.focus_main = 1 THEN s.start_text ELSE s.end_text
FocusedCursor(s) == IF s.focus_main = 1 THEN s.cursor_start ELSE s.cursor_end

\* C14: a digit key d typed in the focused Start or End field with the
\* cursor on slot p writes d at p and changes no other character; if p is
\* not the last digit slot the cursor moves to the next slot after p and the
\* focus stays; if p is the last digit slot the focus moves on (Start to
\* End, End to the From selector) and a newly focused field has its cursor
\* on the first time digit slot (position 11).  (d ranges over the digit
\* keys of the session.)
C14_DigitWritesSlot ==
    (MainActive /\ state.focus_main \in {1, 2}) =>
        \A d \in Digits \cap KeySamples :
            LET r == handle_main_input(d, state, state.env_now).st
                p == FocusedCursor(state)
                typed == IF state.focus_main = 1 THEN r.start_text ELSE r.end_text
                slotsAfter == {q \in (0..15) \ {4, 7, 10, 13} : q > p}
            IN  /\ Len(typed) = Len(FocusedText(state))
                /\ \A i \in 0..15 :
                       PyChar(typed, i) = IF i = p THEN d ELSE PyChar(FocusedText(state), i)
                /\ IF state.focus_main = 1 THEN r.end_text = state.end_text
                                            ELSE r.start_text = state.start_text
                /\ IF p # 15
                   THEN /\ r.focus_main = state.focus_main
                        /\ FocusedCursor(r) \in slotsAfter
                        /\ \A q \in slotsAfter : FocusedCursor(r) <= q
                   ELSE IF state.focus_main = 1
                   THEN r.focus_main = 2 /\ r.cursor_end = 11
                   ELSE r.focus_main = 0

\* C15: Backspace pressed with the cursor at the first digit slot (position
\* 0) is a no-op: the cursor stays and the field text, the character at
\* position 0 included, is unchanged.  (Stated for a field that holds a
\* template-length text.)
C15_BackspaceAtFirstDigit ==
    (/\ MainActive
     /\ state.focus_main \in {1, 2}
     /\ FocusedCursor(state) = 0
     /\ Len(FocusedText(state)) = INPUT_LEN) =>
        LET r == handle_main_input("BACKSPACE", state, state.env_now).st
        IN  /\ r.start_text = state.start_text
            /\ r.end_text = state.end_text
            /\ r.cursor_start = state.cursor_start
            /\ r.cursor_end = state.cursor_end

\* the session state the help overlay must leave alone: everything the
\* handlers own except the overlay flag itself
SessionOf(s) == [s EXCEPT !.help_open = FALSE]

\* C16: while the help overlay is open, on either screen, dispatching any
\* key, pointer click or wheel event leaves the whole session state
\* (selected zones, from_idx, field texts, cursors, focus, scroll offsets,
\* the settings working copy, the quit flag and everything else) as it
\* was; the only thing an event can change is the overlay flag, and only
\* from open to closed.
C16_HelpCapturesInput ==
    (state.help_open /\ ~state.quit /\ state.exc = "") =>
        /\ \A key \in KeySamples \cup {"MOUSE", "NONE", "RESIZE"} :
               LET r == OnKey(key, state) IN
               /\ SessionOf(r.st) = SessionOf(state)
               /\ r.changed = ~r.st.help_open
        /\ \A m \in MouseSamples :
               LET r == OnMouse(m, state) IN
               /\ SessionOf(r.st) = SessionOf(state)
               /\ r.changed = ~r.st.help_open

\* the overlay is open over the settings screen with a working copy that
\* already differs from the saved selection, and a key closes it
C16_Witness ==
    /\ state.help_open /\ state.settings_open /\ ~state.quit /\ state.exc = ""
    /\ state.settings_selected # state.selected
    /\ ~OnKey("ESC", state).st.help_open

\* C17: whenever the From dropdown is open the focus is on the From
\* selector, and so no key can edit the Start or End text while the
\* dropdown is open.
C17_DropdownHoldsFocus ==
    (state.from_list_open /\ state.exc = "") =>
        /\ state.focus_main = 0
        /\ \A key \in KeySamples :
               LET r == handle_main_input(key, state, state.env_now) IN
               (MainActive /\ r.st.from_list_open) =>
                   /\ r.st.start_text = state.start_text
                   /\ r.st.end_text = state.end_text

\* C18: with the From dropdown open on the main screen, Enter commits the
\* highlighted item: from_idx becomes from_list_idx, the dropdown closes,
\* focus moves to Start with its cursor at position 11 and the results are
\* recomputed against the new origin; a click on a dropdown item does the
\* same with the clicked index.
C18_DropdownCommit ==
    LET Committed(r, i) ==
            /\ r.changed
            /\ r.st.exc = ""
            /\ r.st.from_idx = i
            /\ ~r.st.from_list_open
            /\ r.st.focus_main = 1
            /\ r.st.cursor_start = 11
            /\ r.st.start_text = state.start_text
            /\ r.st.end_text = state.end_text
            /\ r.st.selected = state.selected
            /\ LET c == compute_results(r.st)
               IN  /\ r.st.results = c.results
                   /\ r.st.error = c.error
                   /\ r.st.duration_str = c.duration_str
                   /\ r.st.total_minutes = c.total_minutes
                   /\ r.st.error = "" => r.st.results[i + 1][2].tz = state.selected[i + 1]
    IN  (MainActive /\ state.from_list_open) =>
            /\ Committed(handle_main_input("ENTER", state, state.env_now),
                         state.from_list_idx)
            /\ \A m \in MouseSamples :
                   LET hit == region_hit(state.regions, m[1], m[2])
                   IN  (m[3] = "click" /\ hit.hit /\ hit.action = "from_select") =>
                           Committed(OnMouse(m, state), hit.payload[1])

\* the dropdown is open with another zone highlighted than the current
\* origin, and a dropdown item other than the origin can be clicked
C18_Witness ==
    /\ MainActive /\ state.from_list_open
    /\ state.from_list_idx # state.from_idx
    /\ \E m \in MouseSamples :
           LET hit == region_hit(state.regions, m[1], m[2])
           IN  /\ m[3] = "click" /\ hit.hit /\ hit.action = "from_select"
               /\ hit.payload[1] # state.from_idx

\* C19: with the From dropdown open on the main screen, a click anywhere
\* that is not on a dropdown item closes the dropdown without committing:
\* from_idx, both texts and the results stay as they were.
C19_ClickAwayCloses ==
    (MainActive /\ state.from_list_open) =>
        \A m \in MouseSamples :
            LET hit == region_hit(state.regions, m[1], m[2])
                r == OnMouse(m, state)
            IN  (m[3] = "click" /\ ~(hit.hit /\ hit.action = "from_select")) =>
                    /\ ~r.st.from_list_open
                    /\ r.st.from_idx = state.from_idx
                    /\ r.st.start_text = state.start_text
                    /\ r.st.end_text = state.end_text
                    /\ r.st.results = state.results

\* C20: on the main screen with the focus on the From selector, Space
\* toggles the dropdown: it opens it with from_list_idx set to from_idx when
\* it is closed, closes it when it is open, and never changes from_idx.
C20_SpaceTogglesDropdown ==
    (MainActive /\ state.focus_main = 0 /\ Len(state.selected) > 0) =>
        LET r == handle_main_input(" ", state, state.env_now)
        IN  /\ r.st.from_idx = state.from_idx
            /\ r.st.from_list_open = ~state.from_list_open
            /\ r.st.from_list_open => r.st.from_list_idx = state.from_idx

\* the focus of the screen in front
ScreenFocus(s) == IF s.settings_open THEN s.settings_focus ELSE s.focus_main

\* C21: on the main and on the settings screen (help overlay closed) Tab
\* moves the focus to (focus + 1) mod 3 and Shift-Tab to (focus - 1) mod 3
\* within that screen; on the main screen both close the dropdown; Tab
\* followed by Shift-Tab, and three Tabs in a row, bring the focus back to
\* where it was.
C21_TabCyclesFocus ==
    (~state.help_open /\ ~state.quit /\ state.exc = "") =>
        LET f    == ScreenFocus(state)
            tab  == OnKey("TAB", state)
            btab == OnKey("BTAB", state)
            tb   == OnKey("BTAB", tab.st)
            ttt  == OnKey("TAB", OnKey("TAB", tab.st).st)
        IN  /\ f \in 0..2
            /\ ScreenFocus(tab.st) = (f + 1) % 3
            /\ ScreenFocus(btab.st) = (f + 2) % 3
            /\ tab.st.settings_open = state.settings_open
            /\ btab.st.settings_open = state.settings_open
            /\ ~state.settings_open =>
                   (~tab.st.from_list_open /\ ~btab.st.from_list_open)
            /\ ScreenFocus(tb.st) = f
            /\ ScreenFocus(ttt.st) = f

\* the dropdown is open on the main screen with the focus on the End
\* field, from where Tab wraps around to the From selector and closes it
C21_Witness ==
    /\ MainActive /\ state.from_list_open /\ state.focus_main = 2
    /\ OnKey("TAB", state).st.focus_main = 0

\* C22: from every state with the help overlay and the dropdown closed, on
\* the main screen and on the settings screen alike, the quit key ends the
\* session, and so does a click on the quit button wherever one is drawn.
C22_QuitEndsSession ==
    (~state.help_open /\ ~state.from_list_open /\ ~state.quit /\ state.exc = "") =>
        /\ OnKey("q", state).st.quit
        /\ \A m \in MouseSamples :
               LET hit == region_hit(state.regions, m[1], m[2])
               IN  (m[3] = "click" /\ hit.hit /\ hit.action = "button_quit") =>
                       OnMouse(m, state).st.quit

\* what the claim compares across a visit to the settings screen
KeptAcross(a, b) ==
    /\ a.selected = b.selected
    /\ a.from_idx = b.from_idx
    /\ a.start_text = b.start_text
    /\ a.end_text = b.end_text
    /\ a.results = b.results

\* the values recorded on entering settings
OriginalsOf(s) ==
    <<s.settings_original, s.settings_original_box_mode,
      s.settings_original_colors, s.settings_original_theme>>

\* C23: entering settings records selected zones, box_mode, colors_enabled
\* and theme_name; no event of the settings screen changes that record or
\* touches selected zones, from_idx, the texts or the results; and every
\* event that leaves the settings screen other than Save (Cancel by Esc, q
\* or the button) returns to the main screen with selected zones,
\* from_idx, start_text, end_text, results, box_mode, colors_enabled and
\* theme_name equal to their values at the moment settings was entered.
C23_CancelRestores ==
    [][ (state.exc = "" /\ state'.exc = "") =>
          /\ (~state.settings_open /\ state'.settings_open) =>
                 /\ KeptAcross(state, state')
                 /\ OriginalsOf(state') = <<state.selected, state.box_mode,
                                            state.colors_enabled, state.theme_name>>
          /\ (state.settings_open /\ state'.settings_open) =>
                 /\ KeptAcross(state, state')
                 /\ OriginalsOf(state') = OriginalsOf(state)
          /\ (state.settings_open /\ ~state'.settings_open) =>
                 \/ state' = Frame(save_settings(state), TRUE)
                 \/ /\ KeptAcross(state, state')
                    /\ <<state'.selected, state'.box_mode,
                         state'.colors_enabled, state'.theme_name>> = OriginalsOf(state)
      ]_vars

\* settings has been left by Cancel after the box mode had been toggled for
\* preview: the toggled value is still in the settings copy, the mode in
\* force is the recorded one
C23_Witness ==
    /\ ~state.settings_open /\ state.exc = "" /\ events > 2
    /\ state.unicode_supported
    /\ state.settings_box_mode # state.box_mode
    /\ state.settings_original_box_mode = state.box_mode

\* the Save requests a settings state can receive: the s key away from the
\* filter and a click on the Save button
SaveResults(s) ==
    (IF s.settings_focus # 0 THEN {OnKey("s", s)} ELSE {})
      \cup {OnMouse(m, s) : m \in {c \in MouseSamples :
                                     /\ c[3] = "click"
                                     /\ region_hit(s.regions, c[1], c[2]).action = "settings_save"}}

\* what Save does apart from writing the file: with a non-empty working
\* copy the selection becomes the working copy in its order, the main
\* screen returns and the results are recomputed for it; with an empty one
\* the request is rejected, the settings screen stays, and neither the
\* selection nor the file changes
SaveCommits(s, r) ==
    IF Len(s.settings_selected) > 0
    THEN /\ r.changed /\ r.st.exc = ""
         /\ r.st.selected = s.settings_selected
         /\ ~r.st.settings_open
         /\ LET c == compute_results(r.st)
            IN  /\ r.st.results = c.results /\ r.st.error = c.error
                /\ r.st.duration_str = c.duration_str
                /\ r.st.total_minutes = c.total_minutes
    ELSE /\ r.st.settings_open
         /\ r.st.selected = s.selected
         /\ r.st.disk_config = s.disk_config

Canon(s) == {s.tzdata.tab[i].tz : i \in 1..Len(s.tzdata.tab)} \cap s.zones
Resolves(s, z) == s.tzdata.dir /\ \E f \in s.tzdata.files : f.tz = z
RealPath(s, z) == (CHOOSE f \in s.tzdata.files : f.tz = z).real
MatchesCanon(s, z) ==
    Resolves(s, z) /\ \E c \in Canon(s) : Resolves(s, c) /\ RealPath(s, c) = RealPath(s, z)
\* the entries of group g that carry zone z
Carries(g, z) == {i \in 1..Len(g.entries) : g.entries[i].tz_id = z}
Loaded(s) == s.phase # "start" /\ s.error = ""

\* C25: in the mapping of a load that succeeds, every known zone id that is
\* not in the canonical table and whose resolved real path equals the real
\* path of a canonical zone is an alias entry (is_alias true, alias_target
\* a canonical id with that real path) of one group in which that
\* canonical id is listed, once, and is in no other group.
C25_AliasInference ==
    Loaded(state) =>
        \A z \in state.zones \ Canon(state) :
            MatchesCanon(state, z) =>
                \E g \in state.map :
                    /\ Cardinality(Carries(g, z)) = 1
                    /\ \A h \in state.map \ {g} : Carries(h, z) = {}
                    /\ \A i \in Carries(g, z) :
                           LET e == g.entries[i]
                           IN  /\ e.is_alias
                               /\ e.alias_target \in Canon(state)
                               /\ Resolves(state, e.alias_target)
                               /\ RealPath(state, e.alias_target) = RealPath(state, z)
                               /\ \E k \in Carries(g, e.alias_target) : ~g.entries[k].is_alias

\* two aliases have been attached to two different countries, one of them
\* to a zone that three countries list
C25_Witness ==
    /\ Loaded(state)
    /\ \E g, h \in state.map :
           /\ g # h
           /\ Carries(g, "Europe/Busingen") # {} /\ Carries(g, "Europe/Zurich") # {}
           /\ Carries(h, "Arctic/Longyearbyen") # {}
           /\ \E k \in state.map \ {g} : Carries(k, "Europe/Zurich") # {}

\* the fallback group comes after every country group in the rows
FallbackLast(rows) ==
    \A i, j \in 1..Len(rows) :
        (i < j /\ rows[i].country_code = "ZZ") => rows[j].country_code = "ZZ"

\* where a zone that matches no canonical real path has to be: once in the
\* whole mapping, in the fallback group, not as an alias
OnceInFallback(s, z) ==
    \E g \in s.map :
        /\ g.name = "Other/Unmapped" /\ g.cc = "ZZ"
        /\ Cardinality(Carries(g, z)) = 1
        /\ \A i \in Carries(g, z) : ~g.entries[i].is_alias
        /\ \A h \in s.map \ {g} : Carries(h, z) = {}

\* C26 as stated: in the mapping of a load that succeeds, every known zone
\* id whose real path matches no canonical real path, or that cannot be
\* resolved, appears exactly once in the whole mapping, in the fallback
\* group ("Other/Unmapped", ZZ), as a non-alias entry; every known zone id
\* appears in at least one group; and the fallback group comes after all
\* country groups in the emitted rows.
C26_UnmatchedInFallback ==
    Loaded(state) =>
        /\ \A z \in state.zones : ~MatchesCanon(state, z) => OnceInFallback(state, z)
        /\ \A z \in state.zones : \E g \in state.map : Carries(g, z) # {}
        /\ FallbackLast(state.rows)

\* C26 amended: the same for the known zone ids that the canonical table
\* does not list; a listed zone stays in the groups of its countries
\* whether or not its file resolves.
C26_UnlistedUnmatchedInFallback ==
    Loaded(state) =>
        /\ \A z \in state.zones \ Canon(state) :
               ~MatchesCanon(state, z) => OnceInFallback(state, z)
        /\ \A z \in state.zones : \E g \in state.map : Carries(g, z) # {}
        /\ FallbackLast(state.rows)

\* rows have been built in which the fallback group follows a country
\* group, and it holds a zone whose link dangles beside one no table lists
C26_Witness ==
    /\ Loaded(state) /\ state.phase = "rows"
    /\ \E i, j \in 1..Len(state.rows) :
           i < j /\ state.rows[i].country_code # "ZZ" /\ state.rows[j].country_code = "ZZ"
    /\ \E g \in state.map :
           g.cc = "ZZ" /\ Carries(g, "Europe/Busingen") # {} /\ Carries(g, "UTC") # {}

\* C27: build_country_rows emits, for exactly the groups with at least one
\* matching entry and in the order of the groups, one header row followed
\* at once by that group's matching entries in their order, so every header
\* is followed by at least one zone row and a group without a match is
\* absent; an entry matches iff the trimmed filter is empty, or is a
\* case-insensitive substring of the zone id or of its alias target, or of
\* the country name or code of its group.
C27_CountryRows ==
    (state.phase = "rows") =>
        LET rows == state.rows
            filt == Lower(Strip(state.filter))
            Match(g, e) ==
                \/ filt = ""
                \/ Contains(Lower(e.tz_id), filt)
                \/ Contains(Lower(e.alias_target), filt)
                \/ Contains(Lower(g.name), filt)
                \/ Contains(Lower(g.cc), filt)
            Matching(g) == SelectSeq(g.entries, LAMBDA e : Match(g, e))
            Headers == {i \in 1..Len(rows) : rows[i].kind = "header"}
            \* the rows of the block that header i opens
            Block(i) == {j \in (i + 1)..Len(rows) :
                            \A k \in (i + 1)..j : rows[k].kind = "tz"}
            GroupOf(i) == {g \in state.map :
                               g.name = rows[i].country_name /\ g.cc = rows[i].country_code}
        IN  /\ Len(rows) > 0 => rows[1].kind = "header"
            /\ \A g \in state.map :
                   Cardinality({i \in Headers : g \in GroupOf(i)})
                     = IF Len(Matching(g)) > 0 THEN 1 ELSE 0
            /\ \A i \in Headers :
                   /\ Cardinality(GroupOf(i)) = 1
                   /\ \A g \in GroupOf(i) :
                          /\ Cardinality(Block(i)) = Len(Matching(g))
                          /\ Cardinality(Block(i)) >= 1
                          /\ \A n \in 1..Len(Matching(g)) :
                                 LET r == rows[i + n]
                                     e == Matching(g)[n]
                                 IN  /\ r.kind = "tz"
                                     /\ r.tz_id = e.tz_id
                                     /\ r.is_alias = e.is_alias
                                     /\ r.alias_target = e.alias_target
                                     /\ r.country_name = g.name
                                     /\ r.country_code = g.cc

\* the filter matched a country by its name and brought in an entry that
\* does not match by itself, while another group is absent from the rows
C27_Witness ==
    /\ state.phase = "rows" /\ state.filter = "bia"
    /\ \E i \in 1..Len(state.rows) :
           state.rows[i].kind = "tz" /\ state.rows[i].country_name = "Zambia"
             /\ state.rows[i].tz_id = "Africa/Lusaka"
    /\ \E g \in state.map : g.name = "Germany"
    /\ \A i \in 1..Len(state.rows) : state.rows[i].country_name = "Zambia"

\* the zone tables a host can fail to provide: the country table
\* unreadable, the zone table missing, the zone table unreadable
BrokenTables ==
    { [SampleTzdata EXCEPT !.iso_ok = FALSE],
      [SampleTzdata EXCEPT !.zone_file = "missing"],
      [SampleTzdata EXCEPT !.zone_file = "unreadable"] }

\* the session s as it would be had the tables been loaded
WithTables(s) ==
    LET country == load_country_timezones(SeqToSet(s.all_zones), SampleTzdata)
    IN  [s EXCEPT !.country_map = country.map, !.country_error = country.error]

\* a handler result with the country fields of session s put back
WithCountryOf(s, res) ==
    [res EXCEPT !.st.country_map = s.country_map, !.st.country_error = s.country_error]

\* C28: loading a broken zone table gives an error text and an empty
\* mapping; in every state of a session that started with such an error
\* the mapping is empty and the view is flat, the view-toggle key only
\* records "Country view unavailable.", and every other key or click
\* (add, remove, reorder, filter, save among them) does exactly what it
\* does in a session whose tables loaded.
C28_CountryViewUnavailable ==
    /\ (events = 0) =>
           \A tzdata \in BrokenTables :
               LET country == load_country_timezones(SeqToSet(state.all_zones), tzdata)
               IN  country.error # "" /\ country.map = {}
    /\ (state.country_error # "") =>
           /\ state.country_map = {}
           /\ state.view_mode = 0
           /\ \A key \in KeySamples :
                  LET sound == OnKey(key, WithTables(state))
                  IN  IF sound.st.view_mode # 0
                      THEN OnKey(key, state) =
                               [changed |-> TRUE,
                                st |-> [state EXCEPT !.settings_msg = "Country view unavailable."]]
                      ELSE OnKey(key, state) = WithCountryOf(state, sound)
           /\ \A m \in MouseSamples :
                  state.mouse_enabled =>
                      OnMouse(m, state) = WithCountryOf(state, OnMouse(m, WithTables(state)))

\* a session whose tables failed to load while its zones are all there has
\* removed a zone in the flat view and saved: the shorter selection is the
\* one in use and the one on disk
C28_Witness ==
    /\ state.country_error = "tzdata zone file not found"
    /\ Len(state.all_zones) = 4
    /\ ~state.settings_open
    /\ Len(state.selected) = 1
    /\ state.disk_config.present /\ state.disk_config.selected = state.selected

\* C29: display options forced by a command-line flag are not persisted:
\* in a session started with --ascii or --unicode no step in which the box
\* mode of the settings working copy is the one settings opened with
\* changes box_drawing in the config file, and in a session started with
\* --no-color no step in which the colors option of the working copy is
\* the one settings opened with changes colors_enabled in the config file.
C29_FlagsDoNotPersist ==
    [][ /\ ( /\ state.env_args.ascii \/ state.env_args.unicode
             /\ state.settings_box_mode = state.settings_original_box_mode )
            => state'.disk_config.box_drawing = state.disk_config.box_drawing
        /\ ( /\ state.env_args.no_color
             /\ state.settings_colors_enabled = state.settings_original_colors )
            => state'.disk_config.colors_enabled = state.disk_config.colors_enabled
      ]_vars

\* the settings screen hands a key to its option toggles
TogglesActive(s) == s.settings_open /\ ~s.help_open /\ s.settings_focus # 0

\* C30: in every state box_mode is "unicode" only if Unicode is supported
\* and colors_enabled holds only if colors are supported; while the
\* settings working copy asks for Unicode on a terminal without it, ASCII
\* is in force and the warning is recorded, and a terminal without colors
\* carries the colors warning; the box toggle asking for Unicode where it
\* is unsupported leaves ASCII with the warning, and the colors toggle
\* where colors are unsupported leaves them off with the warning.
C30_SafeFallback ==
    /\ state.box_mode \in {"ascii", "unicode"}
    /\ state.box_mode = "unicode" => state.unicode_supported
    /\ state.colors_enabled => state.colors_supported
    /\ ~state.colors_supported => state.colors_warning = "Colors unsupported"
    /\ (state.settings_open /\ state.settings_box_mode = "unicode" /\ ~state.unicode_supported)
           => /\ state.box_mode = "ascii"
              /\ state.box_warning = "Unicode box drawing not supported; using ASCII."
    /\ (TogglesActive(state) /\ ~state.unicode_supported /\ state.settings_box_mode = "ascii")
           => LET res == OnKey("b", state)
              IN  /\ res.changed
                  /\ res.st.settings_box_mode = "unicode"
                  /\ res.st.box_mode = "ascii"
                  /\ res.st.box_warning = "Unicode box drawing not supported; using ASCII."
    /\ (TogglesActive(state) /\ ~state.colors_supported)
           => LET res == OnKey("c", state)
              IN  /\ res.changed
                  /\ ~res.st.settings_colors_enabled
                  /\ ~res.st.colors_enabled
                  /\ res.st.colors_warning = "Colors unsupported"
                  /\ res.st.settings_msg = "Colors unsupported."

\* on a terminal without Unicode the box toggle asked for Unicode and the
\* user saved: ASCII is in force on the main screen, with the warning
C30_Witness ==
    /\ ~state.unicode_supported
    /\ ~state.settings_open
    /\ state.settings_box_mode = "unicode"
    /\ state.box_mode = "ascii"
    /\ state.box_warning = "Unicode box drawing not supported; using ASCII."

\* C31: with the From dropdown open on the main screen, Up and Down change
\* from_list_idx alone, by one step, stopping at 0 and at the last selected
\* zone, and Escape changes from_list_open alone; from_idx, the texts and
\* the results are among what stays.
C31_DropdownNavigation ==
    (MainActive /\ state.from_list_open) =>
        LET last == Len(state.selected) - 1
            idx  == state.from_list_idx
        IN  /\ idx \in 0..last
            /\ OnKey("UP", state) =
                   [changed |-> TRUE,
                    st |-> [state EXCEPT !.from_list_idx = IF idx = 0 THEN 0 ELSE idx - 1]]
            /\ OnKey("DOWN", state) =
                   [changed |-> TRUE,
                    st |-> [state EXCEPT !.from_list_idx = IF idx = last THEN last ELSE idx + 1]]
            /\ OnKey("ESC", state) =
                   [changed |-> TRUE, st |-> [state EXCEPT !.from_list_open = FALSE]]

\* the dropdown is open with the last of several zones highlighted while
\* the origin is still the first
C31_Witness ==
    /\ MainActive /\ state.from_list_open
    /\ Len(state.selected) >= 2
    /\ state.from_list_idx = Len(state.selected) - 1
    /\ state.from_idx = 0

-----------------------------------------------------------------------------
(* The widget helpers on their own: add_region / region_hit on sampled     *)
(* rectangles, next_selectable_index on sampled row lists.                 *)

\* the regions registered in one frame, and the rows of one list
MaxRegions == 3
MaxRows == 4

\* rectangles <<y1, x1, y2, x2>>: a block, a cell inside it, a block that
\* shares the corner <<1, 2>> with the first, and a degenerate one
SampleRects == {<<0, 0, 1, 2>>, <<1, 1, 1, 1>>, <<1, 2, 2, 3>>, <<1, 2, 0, 1>>}

\* what a region carries: <<action, payload>>
SampleTags == {<<"from_toggle", << >>>>, <<"from_select", <<1>>>>, <<"from_select", <<2>>>>}

SamplePoints == {<<x, y>> : x \in 0..4, y \in 0..3}

SampleRow(kind) ==
    [kind |-> kind, tz_id |-> IF kind = "tz" THEN "UTC" ELSE "", is_alias |-> FALSE,
     alias_target |-> "", country_name |-> "Other/Unmapped", country_code |-> "ZZ"]

SampleRowLists ==
    UNION {[1..n -> {SampleRow("header"), SampleRow("tz")}] : n \in 0..MaxRows}

WidgetsInit ==
    /\ state \in {[mode |-> "regions", regions |-> << >>, rows |-> << >>, done |-> FALSE,
                   point |-> <<0, 0>>, found |-> region_hit(<< >>, 0, 0),
                   start_idx |-> 0, direction |-> 1, index |-> 0]}
                 \cup {[mode |-> "rows", regions |-> << >>, rows |-> rows, done |-> FALSE,
                        point |-> <<0, 0>>, found |-> region_hit(<< >>, 0, 0),
                        start_idx |-> 0, direction |-> 1, index |-> 0] :
                       rows \in SampleRowLists}
    /\ events = 0

\* a widget is drawn and registers its rectangle
Register ==
    /\ state.mode = "regions" /\ ~state.done
    /\ Len(state.regions) < MaxRegions
    /\ \E rect \in SampleRects, tag \in SampleTags :
           state' = [state EXCEPT !.regions = add_region(state.regions, rect[1], rect[2], rect[3],
                                                         rect[4], tag[1], tag[2])]
    /\ UNCHANGED events

\* a click is resolved against the frame
HitTest ==
    /\ state.mode = "regions" /\ ~state.done
    /\ \E pt \in SamplePoints :
           state' = [state EXCEPT !.point = pt, !.done = TRUE,
                                  !.found = region_hit(state.regions, pt[1], pt[2])]
    /\ UNCHANGED events

\* the list index is moved to a selectable row
Select ==
    /\ state.mode = "rows" /\ ~state.done
    /\ \E start_idx \in (0 - 2)..(Len(state.rows) + 1), direction \in {0 - 1, 1} :
           state' = [state EXCEPT !.start_idx = start_idx, !.direction = direction,
                                  !.done = TRUE,
                                  !.index = next_selectable_index(state.rows, start_idx,
                                                                  direction)]
    /\ UNCHANGED events

WidgetsNext == Register \/ HitTest \/ Select

SpecWidgets == WidgetsInit /\ [][WidgetsNext]_vars

\* the registered regions whose rectangle holds the probed point
Holding(s) ==
    {i \in 1..Len(s.regions) :
        LET r == s.regions[i]
        IN  /\ r.y1 <= s.point[2] /\ s.point[2] <= r.y2
            /\ r.x1 <= s.point[1] /\ s.point[1] <= r.x2}

\* C32: region_hit returns none exactly when no registered rectangle,
\* corners included, holds the point; otherwise it returns the action and
\* payload of a region that holds the point and after which no region
\* holding the point was registered.
C32_TopmostRegionWins ==
    (state.mode = "regions" /\ state.done) =>
        /\ state.found.hit <=> Holding(state) # {}
        /\ state.found.hit =>
               \E i \in Holding(state) :
                   /\ \A j \in Holding(state) : j <= i
                   /\ state.found.action = state.regions[i].action
                   /\ state.found.payload = state.regions[i].payload
        /\ \A i \in 1..Len(state.regions) :
               LET r == state.regions[i]
               IN  /\ r.y1 <= r.y2 /\ r.x1 <= r.x2
                   /\ (state.point \in {<<r.x1, r.y1>>, <<r.x2, r.y2>>}) => state.found.hit

\* the point <<2, 1>> is the shared corner of two regions with different
\* actions, under a third registered first, and the last one was found
C32_Witness ==
    /\ state.mode = "regions" /\ state.done
    /\ state.point = <<2, 1>>
    /\ Cardinality(Holding(state)) >= 2
    /\ Len(state.regions) = 3
    /\ state.regions[3].action # state.regions[1].action
    /\ state.found.action = state.regions[3].action
    /\ state.found.payload = state.regions[3].payload

\* C36: for a non-empty row list, next_selectable_index returns the
\* nearest zone row at or beyond the clamped start in the direction asked
\* for; when there is none it returns the first zone row (direction -1) or
\* the last zone row (direction +1) of the list; so it never returns the
\* index of a header when the list has a zone row.
C36_NextSelectable ==
    (state.mode = "rows" /\ state.done /\ Len(state.rows) > 0) =>
        LET n       == Len(state.rows)
            zones   == {i \in 0..(n - 1) : state.rows[i + 1].kind = "tz"}
            clamped == IF state.start_idx < 0 THEN 0
                       ELSE IF state.start_idx > n - 1 THEN n - 1 ELSE state.start_idx
            ahead   == IF state.direction = 1 THEN {i \in zones : i >= clamped}
                       ELSE {i \in zones : i <= clamped}
            nearest(S) == CHOOSE i \in S : \A j \in S : (i - clamped) * state.direction
                                                          <= (j - clamped) * state.direction
            first   == CHOOSE i \in zones : \A j \in zones : i <= j
            last    == CHOOSE i \in zones : \A j \in zones : j <= i
        IN  /\ ahead # {} => state.index = nearest(ahead)
            /\ (ahead = {} /\ zones # {}) =>
                   state.index = IF state.direction = 1 THEN last ELSE first
            /\ zones # {} => state.index \in zones

\* C33: when the most recent render registered no region (the "window too
\* small" frame), no click does anything that depends on where it landed:
\* it selects no list row, copies no results cell and triggers no action;
\* at most it closes the dropdown or the help overlay.
C33_NoStaleGeometry ==
    (state.exc = "" /\ ~state.quit /\ state.mouse_enabled /\ state.regions = << >>) =>
        \A m \in MouseSamples :
            (m[3] = "click") =>
                LET r == OnMouse(m, state)
                IN  r.st = [state EXCEPT !.from_list_open = r.st.from_list_open,
                                         !.help_open = r.st.help_open]

\* C34: whenever the settings key is pressed on the main screen, the
\* settings session it opens starts with the working copy equal to the
\* selected zones, an empty filter, the first sort mode and the flat view,
\* the focus on the all-zones pane, both pane indices and scrolls at 0 and
\* an empty status message.
C34_SettingsStartFresh ==
    MainActive =>
        LET s == OnKey("s", state).st
        IN  /\ s.settings_open
            /\ s.settings_selected = state.selected
            /\ s.filter_text = "" /\ s.filter_cursor = 0
            /\ s.sort_mode = 0
            /\ s.view_mode = 0
            /\ s.settings_focus = 1
            /\ s.all_idx = 0 /\ s.all_scroll = 0
            /\ s.sel_idx = 0 /\ s.sel_scroll = 0
            /\ s.settings_msg = ""

\* the rows of the all-zones pane in country view
CountryRowsOf(s) == build_country_rows(s.country_map, s.filter_text)

\* the settings frame of s is on the screen: drawing it again changes nothing
FrameDrawn(s) == render_settings(s, s.env_now) = s

\* C35: on the settings screen in country view with a non-empty row list,
\* the all-zones index left by an event and its frame designates a zone
\* row, never a header; and Add changes nothing in the working copy when
\* the index designates a header that no zone row follows.
C35_HeadersNotSelectable ==
    (state.settings_open /\ state.view_mode = 1 /\ state.exc = "" /\ FrameDrawn(state)) =>
        LET rows == CountryRowsOf(state)
            n    == Len(rows)
            idx  == state.all_idx
        IN  (n > 0) =>
                /\ idx \in 0..(n - 1)
                /\ rows[idx + 1].kind = "tz"
                /\ (\A j \in (idx + 1)..n : rows[j].kind = "header")
                       => settings_add(state, state.env_now).settings_selected
                              = state.settings_selected

\* clicks over the results table: its columns, and the lines of its rows
\* and of the rules between them
ResultClicks == {<<x, y, "click">> : x \in {3, 37, 50, 60, 75}, y \in 13..18}

\* C37: on the main screen with the dropdown closed and a full frame
\* drawn, a click that hits no region and lands on the line of a visible
\* result row, in its Start column, sets start_text to the row's converted
\* start, puts the focus on Start with cursor_start at 11 and recomputes
\* the results; in its End column it does the same for end_text, the End
\* field and cursor_end; nothing else changes; a click on a line between
\* two rows is ignored.
C37_ResultCellCopy ==
    (MainActive /\ ~state.from_list_open /\ state.mouse_enabled /\ state.regions # << >>) =>
        LET lay == state.results_layout
            start_x == lay.table_x + lay.zone_w + lay.dt_w + 3
            end_x   == start_x + lay.dt_w + 1
        IN  \A m \in MouseSamples \cup ResultClicks :
                LET mx     == m[1]
                    my     == m[2]
                    line   == my - lay.row_start
                    row    == lay.start_idx + (line \div 2) + 1
                    onRows == lay.has /\ line >= 0 /\ line < 2 * lay.visible
                    r      == OnMouse(m, state)
                IN  (m[3] = "click" /\ ~region_hit(state.regions, mx, my).hit /\ onRows) =>
                        IF line % 2 = 1 THEN r = [changed |-> FALSE, st |-> state]
                        ELSE (row <= Len(state.results)) =>
                            /\ (mx >= start_x /\ mx < start_x + lay.dt_w) =>
                                   r = [changed |-> TRUE,
                                        st |-> compute_results(
                                            [state EXCEPT
                                               !.start_text = Strftime(state.results[row][2],
                                                                       state.env_ypad),
                                               !.focus_main = 1,
                                               !.cursor_start = 11])]
                            /\ (mx >= end_x /\ mx < end_x + lay.dt_w) =>
                                   r = [changed |-> TRUE,
                                        st |-> compute_results(
                                            [state EXCEPT
                                               !.end_text = Strftime(state.results[row][3],
                                                                     state.env_ypad),
                                               !.focus_main = 2,
                                               !.cursor_end = 11])]

\* a frame is on the screen in which one of these clicks lands in the Start
\* cell of a result row, another in the End cell of a row whose end differs
\* from its start, and a third on the line between two rows
C37_Witness ==
    /\ MainActive /\ ~state.from_list_open /\ state.mouse_enabled
    /\ state.regions # << >> /\ state.results_layout.has
    /\ LET lay == state.results_layout
           start_x == lay.table_x + lay.zone_w + lay.dt_w + 3
           end_x   == start_x + lay.dt_w + 1
           Free(m) == m[3] = "click" /\ ~region_hit(state.regions, m[1], m[2]).hit
           RowOf(m) == lay.start_idx + ((m[2] - lay.row_start) \div 2) + 1
           OnRow(m) == /\ m[2] >= lay.row_start /\ m[2] < lay.row_start + 2 * lay.visible
                       /\ (m[2] - lay.row_start) % 2 = 0
                       /\ RowOf(m) <= Len(state.results)
       IN  /\ \E m \in ResultClicks :
                  Free(m) /\ OnRow(m) /\ m[1] >= start_x /\ m[1] < start_x + lay.dt_w
           /\ \E m \in ResultClicks :
                  /\ Free(m) /\ OnRow(m) /\ m[1] >= end_x /\ m[1] < end_x + lay.dt_w
                  /\ state.results[RowOf(m)][2] # state.results[RowOf(m)][3]
           /\ \E m \in ResultClicks :
                  /\ Free(m) /\ m[2] > lay.row_start /\ m[2] < lay.row_start + 2 * lay.visible
                  /\ (m[2] - lay.row_start) % 2 = 1

\* C38: in a terminal smaller than 80x20, on either screen, no key and no
\* pointer event raises: the handler and the frame that follows it leave
\* no exception behind.
C38_SmallTerminalNeverRaises ==
    (state.env_size[1] < 20 \/ state.env_size[2] < 80) /\ state.exc = "" /\ ~state.quit =>
        /\ \A key \in KeySamples : Frame(OnKey(key, state), TRUE).exc = ""
        /\ state.mouse_enabled =>
               \A m \in MouseSamples : Frame(OnMouse(m, state), TRUE).exc = ""

\* the session after the keys of the sequence ks were typed on the main
\* screen, one after the other
RECURSIVE AfterKeys(_, _)
AfterKeys(s, ks) ==
    IF ks = << >> THEN s
    ELSE AfterKeys(handle_main_input(Head(ks), s, s.env_now).st, Tail(ks))

\* text with its time part (positions 11, 12, 14, 15) replaced by the digits ds
WithTime(text, ds) == PySlice(text, 0, 11) \o ds[1] \o ds[2] \o ":" \o ds[3] \o ds[4]

\* C39: with the focus in the Start field and its cursor at position 11,
\* typing four digits leaves the date part and the separators of start_text
\* as they were, sets its time part to the digits typed and moves the focus
\* to the End field with cursor_end at position 11; four more digits do the
\* same to end_text and move the focus to the From selector.  (The digits
\* range over the digit keys of the session.)
C39_JustTypeTheTime ==
    (MainActive /\ state.focus_main = 1 /\ state.cursor_start = 11) =>
        \A ds \in [1..4 -> Digits \cap KeySamples] :
            LET s4 == AfterKeys(state, ds)
                s8 == AfterKeys(s4, ds)
            IN  /\ s4.exc = ""
                /\ s4.start_text = WithTime(state.start_text, ds)
                /\ s4.end_text = state.end_text
                /\ s4.focus_main = 2
                /\ s4.cursor_end = 11
                /\ s8.exc = ""
                /\ s8.end_text = WithTime(state.end_text, ds)
                /\ s8.start_text = s4.start_text
                /\ s8.focus_main = 0
                /\ ~s8.from_list_open

\* the session after a key and the frame that follows it
AfterKey(key, s, tick) == Frame(OnKey(key, s), tick)

\* C40: from every state of a running session the keys Escape, Escape, q
\* end it, whether or not a second passes between them: the first Escape
\* closes the help overlay if it is open, the second leaves the settings
\* screen (or closes the dropdown), and q then sets the quit flag; none of
\* the three raises.
C40_CanAlwaysQuit ==
    (state.exc = "" /\ ~state.quit) =>
        \A t1, t2 \in BOOLEAN :
            LET s1 == AfterKey("ESC", state, t1)
                s2 == AfterKey("ESC", s1, t2)
                s3 == OnKey("q", s2).st
            IN  /\ s1.exc = "" /\ ~s1.help_open
                /\ s2.exc = "" /\ ~s2.settings_open /\ ~s2.help_open
                /\ s3.exc = "" /\ s3.quit

\* the help overlay is open over the settings screen whose focus is in the
\* filter field, where q alone would be typed into the filter text
C40_Witness ==
    /\ state.exc = "" /\ ~state.quit
    /\ state.settings_open /\ state.help_open
    /\ state.settings_focus = 0

====
